---- MODULE Spec2Model ----
(***************************************************************************)
(* A model of the Game Boy (DMG) emulator core: the CPU interpreter of     *)
(* src/src/cpu/cpu.rs, the memory bus of src/src/bus/memory_bus.rs and the *)
(* cartridge of src/src/cartridge/cartridge.rs.                            *)
(*                                                                         *)
(* The Cpu struct owns its MemoryBus, which owns the Cartridge, so the     *)
(* whole machine is the one record `cpu`.  Bytes are 0..255 and words are  *)
(* 0..65535; every wrapping_add / wrapping_sub of the source is written    *)
(* with an explicit modulus.                                               *)
(***************************************************************************)
EXTENDS Integers, Sequences, FiniteSets, TLC

VARIABLES
    cpu,        \* the Cpu struct (registers, state flags, memory_bus)
    ppu,        \* the Ppu struct
    pre,        \* the Cpu struct as it was when the last call began
    returned,   \* the value the last call returned
    last,       \* the call that produced this state: [op, addr, data]
    steps,      \* number of calls of step made so far
    requests,   \* number of calls of request_interrupt / bus calls made so far
    origin,     \* the Cpu struct as it was before the first call
    frame,      \* run_frame: where its loop stands and cycles_this_frame
    dots        \* dots ticked since the Ppu last saw the LCD off, modulo a frame

vars == <<cpu, ppu, pre, returned, last, steps, requests, origin, frame, dots>>

(***************************************************************************)
(* Bounds of the model.                                                    *)
(***************************************************************************)
MaxSteps == 5
MaxProgLen == 3
MaxRequests == 1
MaxBusOps == 2
MaxOpSteps == 2
MaxFrameSteps == 3
MaxMainSteps == 2
MaxSeqSteps == 3

(***************************************************************************)
(* Integer helpers for u8 / u16 arithmetic.                                *)
(***************************************************************************)
Byte == 0..255

Wrap8(x) == x % 256

Wrap16(x) == x % 65536

Bit(x, i) == (x \div (2 ^ i)) % 2

And8(x, y) ==
    Bit(x, 0) * Bit(y, 0) + 2 * Bit(x, 1) * Bit(y, 1) + 4 * Bit(x, 2) * Bit(y, 2)
    + 8 * Bit(x, 3) * Bit(y, 3) + 16 * Bit(x, 4) * Bit(y, 4)
    + 32 * Bit(x, 5) * Bit(y, 5) + 64 * Bit(x, 6) * Bit(y, 6)
    + 128 * Bit(x, 7) * Bit(y, 7)

Or8(x, y) == x + y - And8(x, y)

Xor8(x, y) == x + y - 2 * And8(x, y)

Not8(x) == 255 - x

\* `v as i8 as u16`: the sign extension of a byte to 16 bits.
SignExt(v) == IF v >= 128 THEN v + 65280 ELSE v

(***************************************************************************)
(* FFlags (bitflags over u8): only bits 4..7 are defined.                  *)
(***************************************************************************)
FlagC == 16
FlagH == 32
FlagN == 64
FlagZ == 128

Fcontains(f, flag) == (f \div flag) % 2 = 1

Finsert(f, flag) == IF Fcontains(f, flag) THEN f ELSE f + flag

Fremove(f, flag) == IF Fcontains(f, flag) THEN f - flag ELSE f

Fset(f, flag, cond) == IF cond THEN Finsert(f, flag) ELSE Fremove(f, flag)

\* FFlags::from_bits_truncate: bits that are not flags are dropped.
from_bits_truncate(b) == And8(b, FlagC + FlagH + FlagN + FlagZ)

(***************************************************************************)
(* Cartridge.  game_data is the byte vector of the image: `len` bytes,     *)
(* all zero except at the offsets listed in `bytes`.                       *)
(***************************************************************************)
VecGet(v, i) == IF i \in DOMAIN v.bytes THEN v.bytes[i] ELSE 0

\* The value an out-of-range index produces: the thread panics.
PANIC == 0 - 1

\* CartridgeType::from: the 28 header bytes that name a cartridge type.
CartridgeTypeTable ==
    {<<0, "RomOnly">>, <<1, "Mbc1">>, <<2, "Mbc1Ram">>,
     <<3, "Mbc1RamBattery">>, <<5, "Mbc2">>, <<6, "Mbc2Battery">>,
     <<8, "RomRam">>, <<9, "RomRamBattery">>, <<11, "Mmm01">>,
     <<12, "Mmm01Ram">>, <<13, "Mmm01RamBattery">>,
     <<15, "Mbc3TimerBattery">>, <<16, "Mbc3TimerRamBattery">>,
     <<17, "Mbc3">>, <<18, "Mbc3Ram">>, <<19, "Mbc3RamBattery">>,
     <<25, "Mbc5">>, <<26, "Mbc5Ram">>, <<27, "Mbc5RamBattery">>,
     <<28, "Mbc5Rumble">>, <<29, "Mbc5RumbleRam">>,
     <<30, "Mbc5RumbleRamBattery">>, <<32, "Mbc6">>,
     <<34, "Mbc7SensorRumbleRamBattery">>, <<252, "PocketCamera">>,
     <<253, "BandaiTama5">>, <<254, "Huc3">>, <<255, "Huc1RamBattery">>}

CartridgeTypeBytes == {e[1] : e \in CartridgeTypeTable}

\* The variant for a byte of the table; PANIC for any other byte.
CartridgeTypeFrom(byte) ==
    IF byte \in CartridgeTypeBytes
    THEN (CHOOSE e \in CartridgeTypeTable : e[1] = byte)[2]
    ELSE PANIC

\* Destination::from
DestinationFrom(byte) ==
    CASE byte = 0 -> <<"Japan">>
      [] byte = 1 -> <<"Overseas">>
      [] OTHER -> <<"Unknown", byte>>

\* String::from_utf8_lossy over value[from..to), as code points, for bytes
\* that are ASCII or 0xFF: an ASCII byte is its own code point, and 0xFF,
\* which no UTF-8 sequence contains, becomes U+FFFD.
from_utf8_lossy(value, from, to) ==
    [i \in 1..(to - from) |->
        IF VecGet(value, from + i - 1) < 128
        THEN VecGet(value, from + i - 1)
        ELSE 65533]

\* The panic that ends Cartridge::load, "none" if it returns.  The slice
\* and the indexings are evaluated in program order, so the cartridge type
\* is looked up after value[326] and before value[328].
CartridgeLoadPanic(value) ==
    CASE value.len < 328 -> "IndexOutOfBounds"
      [] VecGet(value, 327) \notin CartridgeTypeBytes -> "InvalidCartridgeType"
      [] value.len < 336 -> "IndexOutOfBounds"
      [] OTHER -> "none"

CartridgeLoad(value) ==
    [game_data |-> value,
     game_title |-> from_utf8_lossy(value, 308, 324),
     manufacturer_code |-> from_utf8_lossy(value, 319, 323),
     cgb_flag |-> VecGet(value, 323),
     licensee_code |-> <<VecGet(value, 324), VecGet(value, 325)>>,
     sgb_flag |-> VecGet(value, 326),
     cartridge_type |-> CartridgeTypeFrom(VecGet(value, 327)),
     rom_size |-> VecGet(value, 328),
     ram_size |-> VecGet(value, 329),
     destination_code |-> DestinationFrom(VecGet(value, 330)),
     old_licensee_code |-> VecGet(value, 331),
     mask_rom_version_number |-> VecGet(value, 332),
     header_checksum |-> VecGet(value, 333),
     global_checksum |-> VecGet(value, 334) * 256 + VecGet(value, 335)]

CartridgeRead(cart, addr) ==
    IF addr < cart.game_data.len THEN VecGet(cart.game_data, addr) ELSE PANIC

\* Cartridge::write is called by the bus but is not part of the sources; a
\* ROM-only cartridge ignores writes (spec section 4.1).
CartridgeWrite(cart, addr, data) == cart

(***************************************************************************)
(* MemoryBus.  Each RAM array is kept as the function of its non-zero      *)
(* cells; every other cell holds 0, as after MemoryBus::new.               *)
(***************************************************************************)
ArrGet(arr, i) == IF i \in DOMAIN arr THEN arr[i] ELSE 0

ArrSet(arr, i, v) ==
    IF v = 0
    THEN [x \in DOMAIN arr \ {i} |-> arr[x]]
    ELSE [x \in DOMAIN arr \cup {i} |-> IF x = i THEN v ELSE arr[x]]

EmptyArr == [x \in {} |-> 0]

BusNew(cartridge) ==
    [cartridge |-> cartridge, vram |-> EmptyArr, eram |-> EmptyArr,
     wram |-> EmptyArr, oam |-> EmptyArr, hram |-> EmptyArr, io |-> EmptyArr,
     if_reg |-> 0, ie_reg |-> 0]

\* A bus that stores the byte written to 0xFF0F as it comes, without the
\* `& 0x1F` of the source.
BusWriteIfUnmasked(data) == data

BusWriteIf(data) == And8(data, 31)

BusWriteIe(data) == And8(data, 31)

\* A bus that discards writes to echo RAM.
BusWriteEchoDropped(bus, addr, data) == bus

\* The echo arm of write, 0xE000..=0xFDFF.
BusWriteEcho(bus, addr, data) ==
    [bus EXCEPT !.wram = ArrSet(bus.wram, addr - 57344, data)]

\* A bus whose OAM arm takes the whole of 0xFE00..=0xFEFF: writes to the
\* unusable region land behind the 160 sprite bytes.
BusWriteUnusableIntoOam(bus, addr, data) ==
    [bus EXCEPT !.oam = ArrSet(bus.oam, addr - 65024, data)]

\* The arm of write for the unusable region, 0xFEA0..=0xFEFF.
BusWriteUnusable(bus, addr, data) == bus

\* A bus whose high-RAM arm of write takes its index from 0xFF00, as the I/O
\* arm does.
BusWriteHramByIoOffset(bus, addr, data) ==
    IF addr <= 32767
    THEN [bus EXCEPT !.cartridge = CartridgeWrite(bus.cartridge, addr, data)]
    ELSE IF addr <= 40959
    THEN [bus EXCEPT !.vram = ArrSet(bus.vram, addr - 32768, data)]
    ELSE IF addr <= 49151
    THEN [bus EXCEPT !.eram = ArrSet(bus.eram, addr - 40960, data)]
    ELSE IF addr <= 57343
    THEN [bus EXCEPT !.wram = ArrSet(bus.wram, addr - 49152, data)]
    ELSE IF addr <= 65023
    THEN BusWriteEcho(bus, addr, data)
    ELSE IF addr <= 65183
    THEN [bus EXCEPT !.oam = ArrSet(bus.oam, addr - 65024, data)]
    ELSE IF addr <= 65279
    THEN BusWriteUnusable(bus, addr, data)
    ELSE IF addr <= 65407
    THEN IF addr = 65295
         THEN [bus EXCEPT !.if_reg = BusWriteIf(data)]
         ELSE [bus EXCEPT !.io = ArrSet(bus.io, addr - 65280, data)]
    ELSE IF addr <= 65534
    THEN [bus EXCEPT !.hram = ArrSet(bus.hram, addr - 65280, data)]
    ELSE [bus EXCEPT !.ie_reg = BusWriteIe(data)]


BusWrite(bus, addr, data) ==
    IF addr <= 32767
    THEN [bus EXCEPT !.cartridge = CartridgeWrite(bus.cartridge, addr, data)]
    ELSE IF addr <= 40959
    THEN [bus EXCEPT !.vram = ArrSet(bus.vram, addr - 32768, data)]
    ELSE IF addr <= 49151
    THEN [bus EXCEPT !.eram = ArrSet(bus.eram, addr - 40960, data)]
    ELSE IF addr <= 57343
    THEN [bus EXCEPT !.wram = ArrSet(bus.wram, addr - 49152, data)]
    ELSE IF addr <= 65023
    THEN BusWriteEcho(bus, addr, data)
    ELSE IF addr <= 65183
    THEN [bus EXCEPT !.oam = ArrSet(bus.oam, addr - 65024, data)]
    ELSE IF addr <= 65279
    THEN BusWriteUnusable(bus, addr, data)
    ELSE IF addr <= 65407
    THEN IF addr = 65295
         THEN [bus EXCEPT !.if_reg = BusWriteIf(data)]
         ELSE [bus EXCEPT !.io = ArrSet(bus.io, addr - 65280, data)]
    ELSE IF addr <= 65534
    THEN [bus EXCEPT !.hram = ArrSet(bus.hram, addr - 65408, data)]
    ELSE [bus EXCEPT !.ie_reg = BusWriteIe(data)]

\* A request_interrupt that assigns the requested bits instead of or-ing
\* them in.
BusRequestInterruptAssigns(bus, flag_bit) ==
    [bus EXCEPT !.if_reg = And8(flag_bit, 31)]

BusRequestInterrupt(bus, flag_bit) ==
    [bus EXCEPT !.if_reg = Or8(bus.if_reg, And8(flag_bit, 31))]

BusRead(bus, addr) ==
    IF addr <= 32767 THEN CartridgeRead(bus.cartridge, addr)
    ELSE IF addr <= 40959 THEN ArrGet(bus.vram, addr - 32768)
    ELSE IF addr <= 49151 THEN ArrGet(bus.eram, addr - 40960)
    ELSE IF addr <= 57343 THEN ArrGet(bus.wram, addr - 49152)
    ELSE IF addr <= 65023 THEN ArrGet(bus.wram, addr - 57344)
    ELSE IF addr <= 65183 THEN ArrGet(bus.oam, addr - 65024)
    ELSE IF addr <= 65279 THEN 255
    ELSE IF addr <= 65407
    THEN IF addr = 65295 THEN bus.if_reg ELSE ArrGet(bus.io, addr - 65280)
    ELSE IF addr <= 65534 THEN ArrGet(bus.hram, addr - 65408)
    ELSE bus.ie_reg

(***************************************************************************)
(* Cpu: construction and the small helpers of the interpreter.             *)
(***************************************************************************)
CpuNew(bus) ==
    [register_a |-> 0, register_f |-> 0, register_b |-> 0, register_c |-> 0,
     register_d |-> 0, register_e |-> 0, register_h |-> 0, register_l |-> 0,
     stack_pointer |-> 0, program_counter |-> 0,
     halt |-> FALSE, stop |-> FALSE, interruption |-> FALSE,
     ime_pending |-> FALSE, opcode |-> 0, cycles |-> 0,
     memory_bus |-> bus,
     panic |-> "none"]      \* "none" while the thread runs; else the panic

init_registers(m) ==
    [m EXCEPT
        !.register_a = 1, !.register_b = 0, !.register_c = 19,
        !.register_d = 0, !.register_e = 216, !.register_h = 1,
        !.register_l = 77,
        !.program_counter = 256, !.stack_pointer = 65534,
        !.register_f = IF m.memory_bus.cartridge.header_checksum = 0
                       THEN FlagZ ELSE FlagZ + FlagH + FlagC,
        !.memory_bus = BusWrite(BusWrite(m.memory_bus, 65295, 225), 65535, 0),
        !.interruption = FALSE, !.ime_pending = FALSE]

\* An update_cycles that counts machine cycles (4 dots each) instead of dots.
update_cycles_machine(m, n) == [m EXCEPT !.cycles = n \div 4]

update_cycles(m, n) == [m EXCEPT !.cycles = n]

\* An advance_program_counter that saturates at 0xFFFF instead of wrapping.
advance_program_counter_saturating(m, n) ==
    [m EXCEPT !.program_counter =
        IF m.program_counter + n > 65535 THEN 65535 ELSE m.program_counter + n]

advance_program_counter(m, n) ==
    [m EXCEPT !.program_counter = Wrap16(m.program_counter + n)]

read_u8(m, addr) == BusRead(m.memory_bus, addr)

write_u8(m, addr, data) ==
    [m EXCEPT !.memory_bus = BusWrite(m.memory_bus, addr, data)]

register_concat(high, low) == high * 256 + low

\* The two trailing calls of nearly every handler.
Finish(m, n, c) == update_cycles(advance_program_counter(m, n), c)

Panic(m, what) == [m EXCEPT !.panic = what]

HL(m) == register_concat(m.register_h, m.register_l)

Imm8(m) == read_u8(m, Wrap16(m.program_counter + 1))

Imm8b(m) == read_u8(m, Wrap16(m.program_counter + 2))

Imm16(m) == Imm8b(m) * 256 + Imm8(m)

\* Operand encoding of the opcode tables: B C D E H L (HL) A.
RegName ==
    <<"register_b", "register_c", "register_d", "register_e",
      "register_h", "register_l", "hl_ptr", "register_a">>

GetOperand(m, i) == IF i = 6 THEN read_u8(m, HL(m)) ELSE m[RegName[i + 1]]

SetOperand(m, i, v) ==
    IF i = 6 THEN write_u8(m, HL(m), v) ELSE [m EXCEPT ![RegName[i + 1]] = v]

(***************************************************************************)
(* ALU helpers.  In the source each one updates self.register_f and        *)
(* returns the result; here each takes F and returns [r, f].               *)
(***************************************************************************)
inc(f, register) ==
    LET result == Wrap8(register + 1)
        f1 == Fremove(f, FlagN)
        f2 == Fset(f1, FlagZ, result = 0)
    IN [r |-> result, f |-> Fset(f2, FlagH, register % 16 = 15)]

dec_sets_carry(f, register) ==
    LET result == Wrap8(register + 255)
        f1 == Finsert(f, FlagN)
        f2 == Fset(f1, FlagZ, result = 0)
        f3 == Fset(f2, FlagC, register = 0)
    IN [r |-> result, f |-> Fset(f3, FlagH, register % 16 = 0)]

dec(f, register) ==
    LET result == Wrap8(register + 255)
        f1 == Finsert(f, FlagN)
        f2 == Fset(f1, FlagZ, result = 0)
    IN [r |-> result, f |-> Fset(f2, FlagH, register % 16 = 0)]

\* remove(Z | N | H | C)
ClearFlags(f) == Fremove(Fremove(Fremove(Fremove(f, FlagZ), FlagN), FlagH), FlagC)

\* remove N, remove H, set Z and C: the flag tail shared by the rotates.
ShiftFlags(f, result, carry) ==
    Fset(Fremove(Fremove(Fset(f, FlagZ, result = 0), FlagN), FlagH), FlagC, carry)

rlc(f, register) ==
    LET result == Wrap8(register * 2) + Bit(register, 7)
    IN [r |-> result, f |-> ShiftFlags(f, result, Bit(register, 7) = 1)]

rrc(f, register) ==
    LET result == (register \div 2) + 128 * Bit(register, 0)
    IN [r |-> result, f |-> ShiftFlags(f, result, Bit(register, 0) = 1)]

rl_drops_carry(f, value) ==
    LET result == Wrap8(value * 2)
    IN [r |-> result, f |-> ShiftFlags(f, result, Bit(value, 7) = 1)]

rl(f, value) ==
    LET old_carry == IF Fcontains(f, FlagC) THEN 1 ELSE 0
        result == Wrap8(value * 2) + old_carry
    IN [r |-> result, f |-> ShiftFlags(f, result, Bit(value, 7) = 1)]

rr(f, value) ==
    LET old_carry == IF Fcontains(f, FlagC) THEN 1 ELSE 0
        result == (value \div 2) + 128 * old_carry
    IN [r |-> result, f |-> ShiftFlags(f, result, Bit(value, 0) = 1)]

sla(f, value) ==
    LET result == Wrap8(value * 2)
    IN [r |-> result, f |-> ShiftFlags(f, result, Bit(value, 7) = 1)]

sra(f, value) ==
    LET result == (value \div 2) + 128 * Bit(value, 7)
    IN [r |-> result, f |-> ShiftFlags(f, result, Bit(value, 0) = 1)]

swap(f, value) ==
    LET result == (value \div 16) + Wrap8(value * 16)
    IN [r |-> result, f |-> ShiftFlags(f, result, FALSE)]

srl(f, value) ==
    LET result == value \div 2
    IN [r |-> result, f |-> ShiftFlags(f, result, Bit(value, 0) = 1)]

bit(f, value, n) ==
    Finsert(Fremove(Fset(f, FlagZ, Bit(value, n) = 0), FlagN), FlagH)

res(value, n) == value - Bit(value, n) * (2 ^ n)

set(value, n) == value + (1 - Bit(value, n)) * (2 ^ n)

add(f, register_x, register_y) ==
    LET result == Wrap8(register_x + register_y)
        f1 == Fremove(Fset(f, FlagZ, result = 0), FlagN)
        f2 == Fset(f1, FlagH, (register_x % 16) + (register_y % 16) > 15)
    IN [r |-> result, f |-> Fset(f2, FlagC, register_x + register_y > 255)]

\* An adc whose half carry leaves the carry-in out.
adc_half_without_carry(f, register_x, register_y) ==
    LET carry_in == IF Fcontains(f, FlagC) THEN 1 ELSE 0
        tmp == Wrap8(register_x + register_y)
        carry1 == register_x + register_y > 255
        result == Wrap8(tmp + carry_in)
        carry2 == tmp + carry_in > 255
        f1 == Fremove(Fset(f, FlagZ, result = 0), FlagN)
        f2 == Fset(f1, FlagH, (register_x % 16) + (register_y % 16) > 15)
    IN [r |-> result, f |-> Fset(f2, FlagC, carry1 \/ carry2)]

adc(f, register_x, register_y) ==
    LET carry_in == IF Fcontains(f, FlagC) THEN 1 ELSE 0
        tmp == Wrap8(register_x + register_y)
        carry1 == register_x + register_y > 255
        result == Wrap8(tmp + carry_in)
        carry2 == tmp + carry_in > 255
        f1 == Fremove(Fset(f, FlagZ, result = 0), FlagN)
        f2 == Fset(f1, FlagH, (register_x % 16) + (register_y % 16) + carry_in > 15)
    IN [r |-> result, f |-> Fset(f2, FlagC, carry1 \/ carry2)]

sub(f, register_x, register_y) ==
    LET result == Wrap8(register_x - register_y + 256)
        f1 == Finsert(Fset(f, FlagZ, result = 0), FlagN)
        f2 == Fset(f1, FlagH, (register_x % 16) < (register_y % 16))
    IN [r |-> result, f |-> Fset(f2, FlagC, register_x < register_y)]

\* An sbc whose carry is the borrow of the first subtraction only.
sbc_first_borrow_only(f, register_x, register_y) ==
    LET carry_in == IF Fcontains(f, FlagC) THEN 1 ELSE 0
        tmp == Wrap8(register_x - register_y + 256)
        borrow1 == register_x < register_y
        result == Wrap8(tmp - carry_in + 256)
        f1 == Finsert(Fset(f, FlagZ, result = 0), FlagN)
        f2 == Fset(f1, FlagH, (register_x % 16) < (register_y % 16) + carry_in)
    IN [r |-> result, f |-> Fset(f2, FlagC, borrow1)]

sbc(f, register_x, register_y) ==
    LET carry_in == IF Fcontains(f, FlagC) THEN 1 ELSE 0
        tmp == Wrap8(register_x - register_y + 256)
        borrow1 == register_x < register_y
        result == Wrap8(tmp - carry_in + 256)
        borrow2 == tmp < carry_in
        f1 == Finsert(Fset(f, FlagZ, result = 0), FlagN)
        f2 == Fset(f1, FlagH, (register_x % 16) < (register_y % 16) + carry_in)
    IN [r |-> result, f |-> Fset(f2, FlagC, borrow1 \/ borrow2)]

and_(f, register_x, register_y) ==
    LET result == And8(register_x, register_y)
    IN [r |-> result,
        f |-> Fremove(Finsert(Fremove(Fset(f, FlagZ, result = 0), FlagN), FlagH), FlagC)]

xor(f, register_x, register_y) ==
    LET result == Xor8(register_x, register_y)
    IN [r |-> result,
        f |-> Fremove(Fremove(Fremove(Fset(f, FlagZ, result = 0), FlagN), FlagH), FlagC)]

or_(f, register_x, register_y) ==
    LET result == Or8(register_x, register_y)
    IN [r |-> result,
        f |-> Fremove(Fremove(Fremove(Fset(f, FlagZ, result = 0), FlagN), FlagH), FlagC)]

\* cp returns nothing: A keeps its value, only the flags change.
\* A cp that leaves H as it finds it.
cp_keeps_half(f, register_x, register_y) ==
    LET result == Wrap8(register_x - register_y + 256)
        f1 == Finsert(Fset(f, FlagZ, result = 0), FlagN)
    IN [r |-> register_x, f |-> Fset(f1, FlagC, register_x < register_y)]

cp(f, register_x, register_y) ==
    LET result == Wrap8(register_x - register_y + 256)
        f1 == Finsert(Fset(f, FlagZ, result = 0), FlagN)
        f2 == Fset(f1, FlagH, (register_x % 16) < (register_y % 16))
    IN [r |-> register_x, f |-> Fset(f2, FlagC, register_x < register_y)]

\* A push_u16 that stores the low byte first, at the higher address.
push_u16_low_first(m, value) ==
    LET upper == value \div 256
        lower == value % 256
        sp1 == Wrap16(m.stack_pointer + 65535)
        sp2 == Wrap16(sp1 + 65535)
        m1 == write_u8([m EXCEPT !.stack_pointer = sp1], sp1, lower)
    IN write_u8([m1 EXCEPT !.stack_pointer = sp2], sp2, upper)

push_u16(m, value) ==
    LET upper == value \div 256
        lower == value % 256
        sp1 == Wrap16(m.stack_pointer + 65535)
        sp2 == Wrap16(sp1 + 65535)
        m1 == write_u8([m EXCEPT !.stack_pointer = sp1], sp1, upper)
    IN write_u8([m1 EXCEPT !.stack_pointer = sp2], sp2, lower)

pop_u8(m) ==
    [v |-> read_u8(m, m.stack_pointer),
     m |-> [m EXCEPT !.stack_pointer = Wrap16(m.stack_pointer + 1)]]

\* The two pop_u8 calls `low` then `high` that every POP and RET makes.
Pop16(m) ==
    LET p1 == pop_u8(m)
        p2 == pop_u8(p1.m)
    IN [low |-> p1.v, high |-> p2.v, m |-> p2.m]

(***************************************************************************)
(* Primary opcode handlers.  Handlers that the source repeats once per     *)
(* register are written once, with the operand index as a parameter.       *)
(***************************************************************************)
nop(m) == Finish(m, 1, 4)

\* ld_bc_u16, ld_de_u16, ld_hl_u16, ld_sp_u16 (pair = 0, 1, 2, 3 for BC, DE, HL, SP)
ld_rr_u16(m, pair) ==
    LET low == Imm8(m)
        high == Imm8b(m)
        m1 == CASE pair = 0 -> [m EXCEPT !.register_c = low, !.register_b = high]
                [] pair = 1 -> [m EXCEPT !.register_e = low, !.register_d = high]
                [] pair = 2 -> [m EXCEPT !.register_h = high, !.register_l = low]
                [] OTHER -> [m EXCEPT !.stack_pointer = high * 256 + low]
    IN Finish(m1, 3, 12)

GetPair(m, pair) ==
    CASE pair = 0 -> register_concat(m.register_b, m.register_c)
      [] pair = 1 -> register_concat(m.register_d, m.register_e)
      [] pair = 2 -> register_concat(m.register_h, m.register_l)
      [] OTHER -> m.stack_pointer

SetPair(m, pair, v) ==
    CASE pair = 0 -> [m EXCEPT !.register_b = v \div 256, !.register_c = v % 256]
      [] pair = 1 -> [m EXCEPT !.register_d = v \div 256, !.register_e = v % 256]
      [] pair = 2 -> [m EXCEPT !.register_h = v \div 256, !.register_l = v % 256]
      [] OTHER -> [m EXCEPT !.stack_pointer = v]

\* ld_bc_a, ld_de_a
ld_rr_ptr_a(m, pair) == Finish(write_u8(m, GetPair(m, pair), m.register_a), 1, 8)

\* ld_a_bc, ld_a_de
ld_a_rr_ptr(m, pair) ==
    Finish([m EXCEPT !.register_a = read_u8(m, GetPair(m, pair))], 1, 8)

\* inc_bc, inc_de, inc_hl, inc_sp
inc_rr(m, pair) == Finish(SetPair(m, pair, Wrap16(GetPair(m, pair) + 1)), 1, 8)

\* dec_bc, dec_de, dec_hl, dec_sp
dec_rr(m, pair) == Finish(SetPair(m, pair, Wrap16(GetPair(m, pair) + 65535)), 1, 8)

\* inc_b, inc_c, inc_d, inc_e, inc_h, inc_l, inc_a
inc_r(m, i) ==
    LET x == inc(m.register_f, GetOperand(m, i))
    IN Finish([SetOperand(m, i, x.r) EXCEPT !.register_f = x.f], 1, 4)

\* dec_b, dec_c, dec_d, dec_e, dec_h, dec_l, dec_a
dec_r(m, i) ==
    LET x == dec(m.register_f, GetOperand(m, i))
    IN Finish([SetOperand(m, i, x.r) EXCEPT !.register_f = x.f], 1, 4)

inc_hl_ptr(m) ==
    LET addr == HL(m)
        old_value == read_u8(m, addr)
        result == Wrap8(old_value + 1)
        m1 == write_u8(m, addr, result)
        f1 == Fremove(Fset(m.register_f, FlagZ, result = 0), FlagN)
    IN Finish([m1 EXCEPT !.register_f = Fset(f1, FlagH, old_value % 16 = 15)], 1, 12)

dec_hl_ptr(m) ==
    LET addr == HL(m)
        old_value == read_u8(m, addr)
        result == Wrap8(old_value + 255)
        m1 == write_u8(m, addr, result)
        f1 == Finsert(Fset(m.register_f, FlagZ, result = 0), FlagN)
    IN Finish([m1 EXCEPT !.register_f = Fset(f1, FlagH, old_value % 16 = 0)], 1, 12)

\* ld_b_u8, ld_c_u8, ld_d_u8, ld_e_u8, ld_h_u8, ld_l_u8, ld_a_u8
ld_r_u8(m, i) == Finish(SetOperand(m, i, Imm8(m)), 2, 8)

ld_hl_ptr_u8(m) == Finish(write_u8(m, HL(m), Imm8(m)), 2, 12)

rlca(m) ==
    LET result == Wrap8(m.register_a * 2) + Bit(m.register_a, 7)
        f1 == Fremove(Fremove(Fremove(m.register_f, FlagZ), FlagN), FlagH)
    IN Finish([m EXCEPT !.register_a = result,
                        !.register_f = Fset(f1, FlagC, Bit(m.register_a, 7) = 1)], 1, 4)

rrca(m) ==
    LET result == (m.register_a \div 2) + 128 * Bit(m.register_a, 0)
        f1 == Fremove(Fremove(Fremove(m.register_f, FlagZ), FlagN), FlagH)
    IN Finish([m EXCEPT !.register_a = result,
                        !.register_f = Fset(f1, FlagC, Bit(m.register_a, 0) = 1)], 1, 4)

rla(m) ==
    LET old_carry == IF Fcontains(m.register_f, FlagC) THEN 1 ELSE 0
        result == Wrap8(m.register_a * 2) + old_carry
    IN Finish([m EXCEPT !.register_a = result,
                        !.register_f = Fset(ClearFlags(m.register_f), FlagC, Bit(m.register_a, 7) = 1)], 1, 4)

rra(m) ==
    LET old_carry == IF Fcontains(m.register_f, FlagC) THEN 1 ELSE 0
        result == (m.register_a \div 2) + 128 * old_carry
    IN Finish([m EXCEPT !.register_a = result,
                        !.register_f = Fset(ClearFlags(m.register_f), FlagC, Bit(m.register_a, 0) = 1)], 1, 4)

ld_u16_sp(m) ==
    LET addr == Imm16(m)
        m1 == write_u8(m, addr, m.stack_pointer % 256)
    IN Finish(write_u8(m1, Wrap16(addr + 1), m.stack_pointer \div 256), 3, 20)

\* add_hl_bc, add_hl_de, add_hl_hl, add_hl_sp
add_hl_rr(m, pair) ==
    LET hl == HL(m)
        v == GetPair(m, pair)
        result == Wrap16(hl + v)
        f1 == Fremove(m.register_f, FlagN)
        f2 == Fset(f1, FlagH, (hl % 4096) + (v % 4096) > 4095)
        f3 == Fset(f2, FlagC, hl + v > 65535)
    IN Finish([m EXCEPT !.register_f = f3, !.register_h = result \div 256,
                        !.register_l = result % 256], 1, 8)

\* A stop_inst that does not look at the byte after the opcode.
stop_inst_unchecked(m) == Finish([m EXCEPT !.stop = TRUE], 2, 4)

stop_inst(m) ==
    LET next == Imm8(m)
    IN IF next # 0
       THEN Panic(m, "MalformedStop")
       ELSE Finish([m EXCEPT !.stop = TRUE], 2, 4)

halt_inst(m) == Finish([m EXCEPT !.halt = TRUE], 1, 4)

jr_cond_i8_unsigned(m, condition) ==
    LET offset == Imm8(m)
        m1 == advance_program_counter(m, 2)
    IN IF condition
       THEN update_cycles(
                [m1 EXCEPT !.program_counter = Wrap16(m1.program_counter + offset)], 12)
       ELSE update_cycles(m1, 8)

jr_cond_i8(m, condition) ==
    LET offset == SignExt(Imm8(m))
        m1 == advance_program_counter(m, 2)
    IN IF condition
       THEN update_cycles(
                [m1 EXCEPT !.program_counter = Wrap16(m1.program_counter + offset)], 12)
       ELSE update_cycles(m1, 8)

jr_i8(m) ==
    LET offset == SignExt(Imm8(m))
        m1 == advance_program_counter(m, 2)
    IN update_cycles(
           [m1 EXCEPT !.program_counter = Wrap16(m1.program_counter + offset)], 12)

\* Conditions of the conditional jumps, calls and returns: NZ, Z, NC, C.
Cond(m, cc) ==
    CASE cc = 0 -> ~Fcontains(m.register_f, FlagZ)
      [] cc = 1 -> Fcontains(m.register_f, FlagZ)
      [] cc = 2 -> ~Fcontains(m.register_f, FlagC)
      [] OTHER -> Fcontains(m.register_f, FlagC)

\* ldi_hl_a, ldd_hl_a (delta = 1, 65535)
ld_hl_step_a(m, delta) ==
    LET addr == HL(m)
        m1 == write_u8(m, addr, m.register_a)
    IN Finish(SetPair(m1, 2, Wrap16(addr + delta)), 1, 8)

\* ldi_a_hl, ldd_a_hl (delta = 1, 65535)
ld_a_hl_step(m, delta) ==
    LET hl == HL(m)
        m1 == [m EXCEPT !.register_a = read_u8(m, hl)]
    IN Finish(SetPair(m1, 2, Wrap16(hl + delta)), 1, 8)

daa(m) ==
    LET a0 == m.register_a
        n == Fcontains(m.register_f, FlagN)
        h == Fcontains(m.register_f, FlagH)
        c == Fcontains(m.register_f, FlagC)
        a1 == IF ~n
              THEN IF h \/ (a0 % 16) > 9 THEN Wrap8(a0 + 6) ELSE a0
              ELSE IF h THEN Wrap8(a0 + 250) ELSE a0
        a2 == IF ~n
              THEN IF c \/ a1 > 153 THEN Wrap8(a1 + 96) ELSE a1
              ELSE IF c THEN Wrap8(a1 + 160) ELSE a1
        carry_out == IF ~n /\ (c \/ a1 > 153) THEN TRUE ELSE c
        f1 == Fremove(Fset(m.register_f, FlagZ, a2 = 0), FlagH)
    IN Finish([m EXCEPT !.register_a = a2,
                        !.register_f = Fset(f1, FlagC, carry_out)], 1, 4)

cpl(m) ==
    Finish([m EXCEPT !.register_a = Not8(m.register_a),
                     !.register_f = Finsert(Finsert(m.register_f, FlagN), FlagH)], 1, 4)

scf(m) ==
    Finish([m EXCEPT !.register_f =
                Fremove(Fremove(Finsert(m.register_f, FlagC), FlagN), FlagH)], 1, 4)

ccf(m) ==
    LET carry == Fcontains(m.register_f, FlagC)
    IN Finish([m EXCEPT !.register_f =
                Fremove(Fremove(Fset(m.register_f, FlagC, ~carry), FlagN), FlagH)], 1, 4)

\* ld_b_b .. ld_a_a, 0x40..0x7F without 0x76 (halt_inst)
ld_r_r(m, dst, src) ==
    Finish(SetOperand(m, dst, GetOperand(m, src)), 1,
           IF dst = 6 \/ src = 6 THEN 8 ELSE 4)

\* The ALU function selected by bits 3..5 of the opcode.
Alu(k, f, x, y) ==
    CASE k = 0 -> add(f, x, y)
      [] k = 1 -> adc(f, x, y)
      [] k = 2 -> sub(f, x, y)
      [] k = 3 -> sbc(f, x, y)
      [] k = 4 -> and_(f, x, y)
      [] k = 5 -> xor(f, x, y)
      [] k = 6 -> or_(f, x, y)
      [] OTHER -> cp(f, x, y)

\* add_a_b .. cp_a_a, 0x80..0xBF
alu_a_r(m, k, src) ==
    LET x == Alu(k, m.register_f, m.register_a, GetOperand(m, src))
    IN Finish([m EXCEPT !.register_a = x.r, !.register_f = x.f], 1,
              IF src = 6 THEN 8 ELSE 4)

\* add_a_u8, adc_a_u8, sub_u8, sbc_a_u8, and_u8, xor_u8, or_u8, cp_u8
alu_a_u8(m, k) ==
    LET x == Alu(k, m.register_f, m.register_a, Imm8(m))
    IN Finish([m EXCEPT !.register_a = x.r, !.register_f = x.f], 2, 8)

(***************************************************************************)
(* Jumps, calls, returns, stack and the 0xC0..0xFF block.                  *)
(***************************************************************************)
\* ret_nz advances PC before it tests the condition.
ret_nz(m) ==
    LET z_set == Fcontains(m.register_f, FlagZ)
        m1 == advance_program_counter(m, 1)
        p == Pop16(m1)
    IN IF ~z_set
       THEN update_cycles([p.m EXCEPT !.program_counter = p.high * 256 + p.low], 20)
       ELSE update_cycles(m1, 8)

\* ret_z, ret_nc, ret_c
ret_cond(m, cc) ==
    LET p == Pop16(m)
    IN IF Cond(m, cc)
       THEN update_cycles([p.m EXCEPT !.program_counter = p.high * 256 + p.low], 20)
       ELSE Finish(m, 1, 8)

ret(m) ==
    LET p == Pop16(m)
    IN update_cycles([p.m EXCEPT !.program_counter = p.high * 256 + p.low], 16)

reti_keeps_ime(m) ==
    LET p == Pop16(m)
    IN update_cycles([p.m EXCEPT !.program_counter = p.high * 256 + p.low,
                                 !.ime_pending = FALSE], 16)

reti(m) ==
    LET p == Pop16(m)
    IN update_cycles([p.m EXCEPT !.program_counter = p.high * 256 + p.low,
                                 !.interruption = TRUE,
                                 !.ime_pending = FALSE], 16)

\* jp_nz_u16, jp_z_u16, jp_nc_u16, jp_c_u16
jp_cond_u16(m, cc) ==
    IF Cond(m, cc)
    THEN update_cycles([m EXCEPT !.program_counter = Imm16(m)], 16)
    ELSE Finish(m, 3, 12)

jp_u16(m) == update_cycles([m EXCEPT !.program_counter = Imm16(m)], 16)

jp_hl(m) == update_cycles([m EXCEPT !.program_counter = HL(m)], 4)

\* A call_u16 that pushes the address of its own last byte, PC + 2.
call_u16_pushes_short(m) ==
    LET target == Imm16(m)
        return == Wrap16(m.program_counter + 2)
        m1 == push_u16(m, return)
    IN update_cycles([m1 EXCEPT !.program_counter = target], 24)

call_u16(m) ==
    LET target == Imm16(m)
        return == Wrap16(m.program_counter + 3)
        m1 == push_u16(m, return)
    IN update_cycles([m1 EXCEPT !.program_counter = target], 24)

\* call_nz_u16, call_z_u16, call_nc_u16, call_c_u16
call_cond_u16(m, cc) ==
    IF Cond(m, cc) THEN call_u16(m) ELSE Finish(m, 3, 12)

\* rst_00 .. rst_38
rst(m, target) ==
    LET return == Wrap16(m.program_counter + 1)
        m1 == push_u16(m, return)
    IN update_cycles([m1 EXCEPT !.program_counter = target], 16)

\* pop_bc, pop_de, pop_hl (pair = 0, 1, 2)
pop_rr(m, pair) ==
    LET p == Pop16(m)
    IN Finish(SetPair(p.m, pair, p.high * 256 + p.low), 1, 12)

\* A POP AF that loads F with the popped byte as it comes, without the
\* `& 0xF0` of the source.
pop_af_unmasked(m) ==
    LET p == Pop16(m)
    IN Finish([p.m EXCEPT !.register_a = p.high, !.register_f = p.low], 1, 12)

pop_af(m) ==
    LET p == Pop16(m)
    IN Finish([p.m EXCEPT !.register_a = p.high,
                          !.register_f = from_bits_truncate(And8(p.low, 240))], 1, 12)

\* push_bc, push_de, push_hl (pair = 0, 1, 2)
push_rr(m, pair) == Finish(push_u16(m, GetPair(m, pair)), 1, 16)

push_af(m) ==
    LET f == And8(m.register_f, 240)
    IN Finish(push_u16(m, m.register_a * 256 + f), 1, 16)

ldh_u8_a(m) == Finish(write_u8(m, 65280 + Imm8(m), m.register_a), 2, 12)

ldh_c_a(m) == Finish(write_u8(m, 65280 + m.register_c, m.register_a), 1, 8)

ldh_a_u8(m) ==
    Finish([m EXCEPT !.register_a = read_u8(m, 65280 + Imm8(m))], 2, 12)

ldh_a_c(m) ==
    Finish([m EXCEPT !.register_a = read_u8(m, register_concat(255, m.register_c))], 1, 8)

ld_u16_a(m) == Finish(write_u8(m, Imm16(m), m.register_a), 3, 16)

ld_a_u16(m) == Finish([m EXCEPT !.register_a = read_u8(m, Imm16(m))], 3, 16)

\* The flags and the sum that add_sp_i8 and ld_hl_sp_i8 both compute.
SpPlusI8_word_carry(m) ==
    LET value == SignExt(Imm8(m))
        sp == m.stack_pointer
        low_sp == sp % 256
        low_val == value % 256
        f1 == Fremove(Fremove(m.register_f, FlagZ), FlagN)
        f2 == Fset(f1, FlagH, (low_sp % 16) + (low_val % 16) > 15)
    IN [r |-> Wrap16(sp + value), f |-> Fset(f2, FlagC, sp + value > 65535)]

SpPlusI8(m) ==
    LET value == SignExt(Imm8(m))
        sp == m.stack_pointer
        low_sp == sp % 256
        low_val == value % 256
        f1 == Fremove(Fremove(m.register_f, FlagZ), FlagN)
        f2 == Fset(f1, FlagH, (low_sp % 16) + (low_val % 16) > 15)
    IN [r |-> Wrap16(sp + value), f |-> Fset(f2, FlagC, low_sp + low_val > 255)]

add_sp_i8(m) ==
    LET x == SpPlusI8(m)
    IN Finish([m EXCEPT !.register_f = x.f, !.stack_pointer = x.r], 2, 16)

ld_hl_sp_i8(m) ==
    LET x == SpPlusI8(m)
    IN Finish([m EXCEPT !.register_f = x.f, !.register_h = x.r \div 256,
                        !.register_l = x.r % 256], 2, 12)

ld_sp_hl(m) == Finish([m EXCEPT !.stack_pointer = HL(m)], 1, 8)

di_keeps_ime(m) == Finish([m EXCEPT !.ime_pending = FALSE], 1, 4)

di(m) == Finish([m EXCEPT !.interruption = FALSE, !.ime_pending = FALSE], 1, 4)

ei(m) == Finish([m EXCEPT !.ime_pending = TRUE], 1, 4)

\* op_d3_unused .. op_fd_unused: panic!("unused opcode")
op_unused(m) == Panic(m, "IllegalOpcode")

(***************************************************************************)
(* 0xCB-prefixed handlers.  Every one of them ends with                    *)
(* advance_program_counter(2), after cb_prefix has already advanced by 1.  *)
(***************************************************************************)
CbAdvance(m, c) == Finish(m, 2, c)

\* The rotate / shift selected by bits 3..5 of the sub-opcode.
Rot(k, f, v) ==
    CASE k = 0 -> rlc(f, v)
      [] k = 1 -> rrc(f, v)
      [] k = 2 -> rl(f, v)
      [] k = 3 -> rr(f, v)
      [] k = 4 -> sla(f, v)
      [] k = 5 -> sra(f, v)
      [] k = 6 -> swap(f, v)
      [] OTHER -> srl(f, v)

\* rlc_b .. srl_a, 0x00..0x3F
cb_rot(m, k, i) ==
    LET x == Rot(k, m.register_f, GetOperand(m, i))
    IN CbAdvance([SetOperand(m, i, x.r) EXCEPT !.register_f = x.f],
                 IF i = 6 THEN 16 ELSE 8)

\* bit_0_b .. bit_7_a, 0x40..0x7F
cb_bit(m, n, i) ==
    CbAdvance([m EXCEPT !.register_f = bit(m.register_f, GetOperand(m, i), n)],
              IF i = 6 THEN 16 ELSE 8)

\* res_0_b .. res_7_a, 0x80..0xBF
cb_res(m, n, i) ==
    CbAdvance(SetOperand(m, i, res(GetOperand(m, i), n)), IF i = 6 THEN 16 ELSE 8)

\* set_0_b .. set_7_a, 0xC0..0xFF
cb_set(m, n, i) ==
    CbAdvance(SetOperand(m, i, set(GetOperand(m, i), n)), IF i = 6 THEN 16 ELSE 8)

process_cb(m, inst) ==
    LET i == inst % 8
        n == (inst \div 8) % 8
    IN CASE inst < 64 -> cb_rot(m, n, i)
         [] inst >= 64 /\ inst < 128 -> cb_bit(m, n, i)
         [] inst >= 128 /\ inst < 192 -> cb_res(m, n, i)
         [] OTHER -> cb_set(m, n, i)

cb_prefix(m) ==
    LET m1 == advance_program_counter(m, 1)
        inst == read_u8(m1, m1.program_counter)
    IN process_cb([m1 EXCEPT !.opcode = inst], inst)

(***************************************************************************)
(* Decode and the step function.                                           *)
(***************************************************************************)
\* The arms of `process` for 0x00..0x3F.
process_low(m, inst) ==
    LET n == inst \div 8
        pair == inst \div 16
    IN CASE inst = 0 -> nop(m)
         [] inst = 7 -> rlca(m)
         [] inst = 8 -> ld_u16_sp(m)
         [] inst = 15 -> rrca(m)
         [] inst = 16 -> stop_inst(m)
         [] inst = 23 -> rla(m)
         [] inst = 24 -> jr_i8(m)
         [] inst = 31 -> rra(m)
         [] inst \in {32, 40, 48, 56} -> jr_cond_i8(m, Cond(m, n - 4))
         [] inst = 39 -> daa(m)
         [] inst = 47 -> cpl(m)
         [] inst = 55 -> scf(m)
         [] inst = 63 -> ccf(m)
         [] inst \in {2, 18} -> ld_rr_ptr_a(m, pair)
         [] inst \in {10, 26} -> ld_a_rr_ptr(m, pair)
         [] inst = 34 -> ld_hl_step_a(m, 1)
         [] inst = 42 -> ld_a_hl_step(m, 1)
         [] inst = 50 -> ld_hl_step_a(m, 65535)
         [] inst = 58 -> ld_a_hl_step(m, 65535)
         [] inst = 52 -> inc_hl_ptr(m)
         [] inst = 53 -> dec_hl_ptr(m)
         [] inst = 54 -> ld_hl_ptr_u8(m)
         [] inst % 16 = 1 -> ld_rr_u16(m, pair)
         [] inst % 16 = 3 -> inc_rr(m, pair)
         [] inst % 16 = 9 -> add_hl_rr(m, pair)
         [] inst % 16 = 11 -> dec_rr(m, pair)
         [] inst % 8 = 4 /\ inst # 52 -> inc_r(m, n)
         [] inst % 8 = 5 /\ inst # 53 -> dec_r(m, n)
         [] inst % 8 = 6 /\ inst # 54 -> ld_r_u8(m, n)

\* The arms of `process` for 0xC0..0xFF.
process_high(m, inst) ==
    LET n == (inst \div 8) % 8
        pair == (inst \div 16) % 4
    IN CASE inst = 192 -> ret_nz(m)
         [] inst \in {200, 208, 216} -> ret_cond(m, n)
         [] inst \in {193, 209, 225} -> pop_rr(m, pair)
         [] inst = 241 -> pop_af(m)
         [] inst \in {194, 202, 210, 218} -> jp_cond_u16(m, n)
         [] inst = 195 -> jp_u16(m)
         [] inst \in {196, 204, 212, 220} -> call_cond_u16(m, n)
         [] inst \in {197, 213, 229} -> push_rr(m, pair)
         [] inst = 245 -> push_af(m)
         [] inst % 8 = 6 -> alu_a_u8(m, n)
         [] inst % 8 = 7 -> rst(m, n * 8)
         [] inst = 201 -> ret(m)
         [] inst = 203 -> cb_prefix(m)
         [] inst = 205 -> call_u16(m)
         [] inst = 217 -> reti(m)
         [] inst = 224 -> ldh_u8_a(m)
         [] inst = 226 -> ldh_c_a(m)
         [] inst = 232 -> add_sp_i8(m)
         [] inst = 233 -> jp_hl(m)
         [] inst = 234 -> ld_u16_a(m)
         [] inst = 240 -> ldh_a_u8(m)
         [] inst = 242 -> ldh_a_c(m)
         [] inst = 243 -> di(m)
         [] inst = 248 -> ld_hl_sp_i8(m)
         [] inst = 249 -> ld_sp_hl(m)
         [] inst = 250 -> ld_a_u16(m)
         [] inst = 251 -> ei(m)
         [] inst \in {211, 219, 221, 227, 228, 235, 236, 237, 244, 252, 253} ->
                op_unused(m)

process(m, inst) ==
    CASE inst < 64 -> process_low(m, inst)
      [] inst >= 64 /\ inst < 128 ->
            IF inst = 118 THEN halt_inst(m)
            ELSE ld_r_r(m, (inst \div 8) % 8, inst % 8)
      [] inst >= 128 /\ inst < 192 -> alu_a_r(m, (inst \div 8) % 8, inst % 8)
      [] OTHER -> process_high(m, inst)

\* The tail of step: ime_pending is tested after the instruction has run.
PromoteIme(m) ==
    IF m.ime_pending
    THEN [m EXCEPT !.interruption = TRUE, !.ime_pending = FALSE]
    ELSE m

\* A head of step that resets the cycle counter before the stop test.
StepIdleResetsCycles(m) ==
    IF m.stop THEN [m |-> [m EXCEPT !.cycles = 0], ret |-> 0]
    ELSE [m |-> m, ret |-> 4]

\* The head of step: the stop and halt tests.
StepIdle(m) ==
    IF m.stop THEN [m |-> m, ret |-> 0] ELSE [m |-> m, ret |-> 4]

\* Cpu::step: the new Cpu and the value returned (NoValue when it panics).
NoValue == 0 - 1

step(m) ==
    IF m.stop \/ m.halt
    THEN StepIdle(m)
    ELSE LET m1 == [m EXCEPT !.cycles = 0]
             inst == read_u8(m1, m1.program_counter)
         IN IF inst = PANIC
            THEN [m |-> Panic(m1, "IndexOutOfBounds"), ret |-> NoValue]
            ELSE LET m2 == process([m1 EXCEPT !.opcode = inst], inst)
                     m3 == PromoteIme(m2)
                 IN IF m2.panic # "none"
                    THEN [m |-> m2, ret |-> NoValue]
                    ELSE [m |-> m3, ret |-> m3.cycles]

(***************************************************************************)
(* Ppu (src/src/ppu/ppu.rs).  The frame buffer is kept, like the RAM       *)
(* arrays, as the function of its non-zero pixels.                         *)
(***************************************************************************)
LCDC == 65344
STAT == 65345
SCY == 65346
SCX == 65347
LY == 65348
LYC == 65349
BGP == 65351

LCDC_ENABLE == 128
LCDC_BG_ENABLE == 1

MODE_HBLANK == 0
MODE_VBLANK == 1
MODE_OAM == 2
MODE_XFER == 3

DOTS_PER_LINE == 456
OAM_DOTS == 80
XFER_DOTS == 172

PpuNew ==
    [framebuffer |-> EmptyArr, frame_ready |-> FALSE, mode |-> MODE_OAM,
     dot |-> 0, rendered_this_line |-> FALSE]

set_stat_mode(bus, mode) ==
    LET stat == BusRead(bus, STAT)
    IN BusWrite(bus, STAT, Or8(And8(stat, 252), And8(mode, 3)))

update_lyc(bus, ly) ==
    LET lyc == BusRead(bus, LYC)
        stat == BusRead(bus, STAT)
    IN BusWrite(bus, STAT, IF ly = lyc THEN Or8(stat, 4) ELSE And8(stat, 251))

\* The shade render_scanline stores for pixel x of line ly.
Shade(bus, ly, x) ==
    LET lcdc == BusRead(bus, LCDC)
        scx == BusRead(bus, SCX)
        scy == BusRead(bus, SCY)
        bgp == BusRead(bus, BGP)
        bg_map_base == IF Bit(lcdc, 3) = 1 THEN 39936 ELSE 38912
        world_y == ly + scy
        tile_row == (world_y \div 8) % 32
        row_in_tile == world_y % 8
        world_x == x + scx
        tile_col == (world_x \div 8) % 32
        col_in_tile == world_x % 8
        tile_index == BusRead(bus, bg_map_base + tile_row * 32 + tile_col)
        tile_addr == IF Bit(lcdc, 4) = 1
                     THEN 32768 + tile_index * 16
                     ELSE IF tile_index >= 128
                          THEN 36864 + (tile_index - 256) * 16
                          ELSE 36864 + tile_index * 16
        lo == BusRead(bus, tile_addr + row_in_tile * 2)
        hi == BusRead(bus, tile_addr + row_in_tile * 2 + 1)
        b0 == Bit(lo, 7 - col_in_tile)
        b1 == Bit(hi, 7 - col_in_tile)
        color_id == 2 * b1 + b0
    IN (bgp \div (2 ^ (color_id * 2))) % 4

render_scanline(p, bus, ly) ==
    IF And8(BusRead(bus, LCDC), LCDC_BG_ENABLE) = 0
    THEN p
    ELSE LET line == {ly * 160 + x : x \in 0..159}
             lit == {ly * 160 + x : x \in {x \in 0..159 : Shade(bus, ly, x) # 0}}
         IN [p EXCEPT !.framebuffer =
                [i \in (DOMAIN p.framebuffer \ line) \cup lit |->
                    IF i \in lit THEN Shade(bus, ly, i - ly * 160)
                    ELSE p.framebuffer[i]]]

\* A pass of the loop that ends the line one dot late.
TickDotLateLineEnd(p, bus) ==
    LET p1 == [p EXCEPT !.dot = p.dot + 1]
        ly == BusRead(bus, LY)
        \* the VBlank lines / visible lines branch
        a == IF ly >= 144
             THEN IF p1.mode # MODE_VBLANK
                  THEN [p |-> [p1 EXCEPT !.mode = MODE_VBLANK, !.frame_ready = TRUE],
                        bus |-> set_stat_mode(bus, MODE_VBLANK)]
                  ELSE [p |-> p1, bus |-> bus]
             ELSE LET new_mode == IF p1.dot < OAM_DOTS THEN MODE_OAM
                                  ELSE IF p1.dot < OAM_DOTS + XFER_DOTS THEN MODE_XFER
                                  ELSE MODE_HBLANK
                      p2 == IF new_mode # p1.mode
                            THEN [p1 EXCEPT !.mode = new_mode,
                                            !.rendered_this_line =
                                                IF new_mode = MODE_XFER THEN FALSE ELSE @]
                            ELSE p1
                      bus2 == IF new_mode # p1.mode
                              THEN set_stat_mode(bus, new_mode)
                              ELSE bus
                  IN IF p2.mode = MODE_XFER /\ ~p2.rendered_this_line
                     THEN [p |-> [render_scanline(p2, bus2, ly)
                                     EXCEPT !.rendered_this_line = TRUE],
                           bus |-> bus2]
                     ELSE [p |-> p2, bus |-> bus2]
    IN \* end of line
       IF a.p.dot > DOTS_PER_LINE
       THEN LET new_ly == IF Wrap8(ly + 1) > 153 THEN 0 ELSE Wrap8(ly + 1)
            IN [p |-> [a.p EXCEPT !.dot = 0, !.rendered_this_line = FALSE],
                bus |-> update_lyc(BusWrite(a.bus, LY, new_ly), new_ly)]
       ELSE a

\* One pass of the `while dots_to_advance > 0` loop of Ppu::tick.
TickDot(p, bus) ==
    LET p1 == [p EXCEPT !.dot = p.dot + 1]
        ly == BusRead(bus, LY)
        \* the VBlank lines / visible lines branch
        a == IF ly >= 144
             THEN IF p1.mode # MODE_VBLANK
                  THEN [p |-> [p1 EXCEPT !.mode = MODE_VBLANK, !.frame_ready = TRUE],
                        bus |-> set_stat_mode(bus, MODE_VBLANK)]
                  ELSE [p |-> p1, bus |-> bus]
             ELSE LET new_mode == IF p1.dot < OAM_DOTS THEN MODE_OAM
                                  ELSE IF p1.dot < OAM_DOTS + XFER_DOTS THEN MODE_XFER
                                  ELSE MODE_HBLANK
                      p2 == IF new_mode # p1.mode
                            THEN [p1 EXCEPT !.mode = new_mode,
                                            !.rendered_this_line =
                                                IF new_mode = MODE_XFER THEN FALSE ELSE @]
                            ELSE p1
                      bus2 == IF new_mode # p1.mode
                              THEN set_stat_mode(bus, new_mode)
                              ELSE bus
                  IN IF p2.mode = MODE_XFER /\ ~p2.rendered_this_line
                     THEN [p |-> [render_scanline(p2, bus2, ly)
                                     EXCEPT !.rendered_this_line = TRUE],
                           bus |-> bus2]
                     ELSE [p |-> p2, bus |-> bus2]
    IN \* end of line
       IF a.p.dot >= DOTS_PER_LINE
       THEN LET new_ly == IF Wrap8(ly + 1) > 153 THEN 0 ELSE Wrap8(ly + 1)
            IN [p |-> [a.p EXCEPT !.dot = 0, !.rendered_this_line = FALSE],
                bus |-> update_lyc(BusWrite(a.bus, LY, new_ly), new_ly)]
       ELSE a

\* The `while dots_to_advance > 0` loop of Ppu::tick on s = [p, bus]; d is
\* the Ppu and the bus after one pass.
RECURSIVE TickLoop(_, _)
TickLoop(s, dots_to_advance) ==
    IF dots_to_advance = 0
    THEN s
    ELSE CHOOSE r \in {TickLoop(d, dots_to_advance - 1) :
                          d \in {TickDot(s.p, s.bus)}} : TRUE

\* Ppu::tick: the new Ppu and the new bus.
tick(p, t_cycles, bus) ==
    IF And8(BusRead(bus, LCDC), LCDC_ENABLE) = 0
    THEN [p |-> [p EXCEPT !.mode = MODE_HBLANK, !.dot = 0,
                          !.rendered_this_line = FALSE],
          bus |-> set_stat_mode(BusWrite(bus, LY, 0), MODE_HBLANK)]
    ELSE TickLoop([p |-> p, bus |-> bus], t_cycles)

\* Ppu::take_frame: the new Ppu and the Option returned.
\* Option::None, also what the ghost variable returned holds when no
\* Option has been returned.
None == [some |-> FALSE]

\* take_frame handing the frame out without clearing frame_ready.
take_frame_keeps_ready(p) ==
    IF p.frame_ready
    THEN [p |-> p,
          ret |-> [some |-> TRUE, pixels |-> p.framebuffer]]
    ELSE [p |-> p, ret |-> None]

take_frame(p) ==
    IF p.frame_ready
    THEN [p |-> [p EXCEPT !.frame_ready = FALSE],
          ret |-> [some |-> TRUE, pixels |-> p.framebuffer]]
    ELSE [p |-> p, ret |-> None]

(***************************************************************************)
(* Inputs: cartridge images and programs.                                  *)
(***************************************************************************)
\* A 32 KiB image (cartridge type 0x00, ROM only) that is zero except for
\* the bytes of `code` that fall below 0x8000 when `code` is laid out from
\* address `at` (modulo 2^16), and the header checksum byte at 0x14D.
RomLen == 32768

CodeAddr(at, i) == Wrap16(at + i - 1)

RomImage(at, code, checksum) ==
    LET placed == {i \in 1..Len(code) : CodeAddr(at, i) < RomLen /\ code[i] # 0}
        cells == {CodeAddr(at, i) : i \in placed}
        chk == IF checksum # 0 THEN {333} ELSE {}
    IN [len |-> RomLen,
        bytes |-> [a \in cells \cup chk |->
                      IF a \in cells
                      THEN code[CHOOSE i \in placed : CodeAddr(at, i) = a]
                      ELSE checksum]]

\* The machine as main builds it: Cartridge::load, MemoryBus::new, Cpu::new,
\* then init_registers at the head of Cpu::start.
Boot(image) == init_registers(CpuNew(BusNew(CartridgeLoad(image))))

\* A sequence of MemoryBus::write calls, each <<addr, data>>.
RECURSIVE Poke(_, _)
Poke(bus, writes) ==
    IF writes = <<>> THEN bus
    ELSE Poke(BusWrite(bus, writes[1][1], writes[1][2]), Tail(writes))

\* Instructions the multi-step programs are made of:
\* NOP, EI, DI, HALT, STOP 00, LDH (0xFF),A, LD A,C, RETI.
ProgInstrs ==
    {<<0>>, <<251>>, <<243>>, <<118>>, <<16, 0>>, <<224, 255>>, <<121>>, <<217>>}

RECURSIVE ProgsOfLen(_)
ProgsOfLen(n) ==
    IF n = 0 THEN {<<>>}
    ELSE {i \o q : i \in ProgInstrs, q \in ProgsOfLen(n - 1)}

HeaderChecksums == {0, 231}

RequestBits == {2, 18, 255}

\* run_frame has not been called.
NoFrame == [at |-> "idle", cycles_this_frame |-> 0]

Call(op, addr, data) == [op |-> op, addr |-> addr, data |-> data]

(***************************************************************************)
(* Spec: the machine booted on a program at 0x0100, stepped by run_frame,  *)
(* with interrupt requests arriving between steps.                         *)
(***************************************************************************)
Init ==
    /\ \E code \in ProgsOfLen(MaxProgLen), checksum \in HeaderChecksums :
          cpu = Boot(RomImage(256, code, checksum))
    /\ ppu = PpuNew
    /\ pre = cpu
    /\ returned = 0
    /\ last = Call("init", 0, 0)
    /\ steps = 0
    /\ requests = 0
    /\ origin = cpu
    /\ frame = NoFrame
    /\ dots = 0

StepBounded(bound) ==
    /\ steps < bound
    /\ cpu.panic = "none"
    /\ LET s == step(cpu)
       IN /\ cpu' = s.m
          /\ returned' = s.ret
    /\ pre' = cpu
    /\ last' = Call("step", 0, 0)
    /\ steps' = steps + 1
    /\ UNCHANGED <<dots, frame, origin, ppu, requests>>

Step == StepBounded(MaxSteps)

RequestInterrupt ==
    /\ requests < MaxRequests
    /\ cpu.panic = "none"
    /\ \E flag_bit \in RequestBits :
          /\ cpu' = [cpu EXCEPT !.memory_bus =
                        BusRequestInterrupt(cpu.memory_bus, flag_bit)]
          /\ last' = Call("request_interrupt", 0, flag_bit)
    /\ requests' = requests + 1
    /\ UNCHANGED <<dots, frame, origin, ppu, pre, returned, steps>>

Next == Step \/ RequestInterrupt

Spec == Init /\ [][Next]_vars

(***************************************************************************)
(* SpecOp: one instruction at a time.  A harness builds the machine, sets  *)
(* the registers (all pub fields) and memory (MemoryBus::write) to one of  *)
(* a few scenarios, lays one encoded instruction at PC and calls step.     *)
(* Every primary opcode and every 0xCB sub-opcode is laid out.             *)
(***************************************************************************)
\* Instruction lengths as the specification documents them (section 4.4.2).
Len3Ops == {1, 17, 33, 49, 8, 234, 250, 195, 194, 202, 210, 218, 205,
            196, 204, 212, 220}

Len2Ops == {6, 14, 22, 30, 38, 46, 54, 62, 198, 206, 214, 222, 230, 238,
            246, 254, 224, 240, 24, 32, 40, 48, 56, 232, 248, 16, 203}

DocLen(op) == IF op \in Len3Ops THEN 3 ELSE IF op \in Len2Ops THEN 2 ELSE 1

ImmLow == {0, 127, 254}

ImmHigh == {0, 192, 255}

Encodings ==
    {<<op>> : op \in (0..255) \ (Len3Ops \cup Len2Ops)}
    \cup {<<op, i>> : op \in Len2Ops \ {203}, i \in ImmLow}
    \cup {<<op, i, j>> : op \in Len3Ops, i \in ImmLow \ {127}, j \in ImmHigh}
    \cup {<<203, sub_op>> : sub_op \in 0..255}

OpPCs == {256, 65534}

FlagValues == {16 * k : k \in 0..15}

\* Register files and memory contents a program can produce with LD, POP
\* and stores: [regs, writes].
Scenarios ==
    {[a |-> 1, b |-> 0, c |-> 19, d |-> 0, e |-> 216, h |-> 1, l |-> 77,
      sp |-> 65534, writes |-> <<>>],
     [a |-> 154, b |-> 255, c |-> 15, d |-> 192, e |-> 1, h |-> 192, l |-> 2,
      sp |-> 53248,
      writes |-> <<<<53248, 255>>, <<53249, 18>>, <<49154, 255>>, <<65295, 31>>>>],
     [a |-> 0, b |-> 128, c |-> 128, d |-> 255, e |-> 254, h |-> 255, l |-> 255,
      sp |-> 1, writes |-> <<<<49153, 15>>>>]}

Harness(image, at, code, sc, f0) ==
    LET m == Boot(image)
        ram == <<>> \o [i \in 1..Len(code) |-> <<CodeAddr(at, i), code[i]>>]
    IN [m EXCEPT
           !.register_a = sc.a, !.register_f = f0, !.register_b = sc.b,
           !.register_c = sc.c, !.register_d = sc.d, !.register_e = sc.e,
           !.register_h = sc.h, !.register_l = sc.l,
           !.stack_pointer = sc.sp, !.program_counter = at,
           !.memory_bus = Poke(Poke(m.memory_bus, sc.writes), ram)]

InitOp ==
    /\ \E at \in OpPCs, code \in Encodings, sc \in Scenarios, f0 \in FlagValues :
          cpu = Harness(RomImage(at, code, 0), at, code, sc, f0)
    /\ ppu = PpuNew
    /\ pre = cpu
    /\ returned = 0
    /\ last = Call("init", 0, 0)
    /\ steps = 0
    /\ requests = 0
    /\ origin = cpu
    /\ frame = NoFrame
    /\ dots = 0

OpStep == StepBounded(MaxOpSteps)

NextOp == OpStep

SpecOp == InitOp /\ [][NextOp]_vars

(***************************************************************************)
(* SpecBus: a fresh MemoryBus driven by arbitrary write, read and          *)
(* request_interrupt calls.  The cartridge is ROM only, 32 KiB of zeros    *)
(* but for NOP; JP 0x0150 at the entry point 0x0100.                       *)
(***************************************************************************)
BusAddrs ==
    {0, 257, 32767, 32768, 40959, 40960, 49151, 49152, 56831, 57343, 57344, 65023,
     65024, 65183, 65184, 65279, 65280, 65295, 65407, 65408, 65534, 65535}

BusData == {0, 225, 255}

InitBus ==
    /\ cpu = CpuNew(BusNew(CartridgeLoad(RomImage(256, <<0, 195, 80, 1>>, 0))))
    /\ ppu = PpuNew
    /\ pre = cpu
    /\ returned = 0
    /\ last = Call("init", 0, 0)
    /\ steps = 0
    /\ requests = 0
    /\ origin = cpu
    /\ frame = NoFrame
    /\ dots = 0

Write ==
    /\ requests < MaxBusOps
    /\ \E addr \in BusAddrs, data \in BusData :
          /\ cpu' = [cpu EXCEPT !.memory_bus = BusWrite(cpu.memory_bus, addr, data)]
          /\ last' = Call("write", addr, data)
    /\ pre' = cpu
    /\ requests' = requests + 1
    /\ UNCHANGED <<dots, frame, origin, ppu, returned, steps>>

Request ==
    /\ requests < MaxBusOps
    /\ \E flag_bit \in BusData :
          /\ cpu' = [cpu EXCEPT !.memory_bus =
                        BusRequestInterrupt(cpu.memory_bus, flag_bit)]
          /\ last' = Call("request_interrupt", 0, flag_bit)
    /\ pre' = cpu
    /\ requests' = requests + 1
    /\ UNCHANGED <<dots, frame, origin, ppu, returned, steps>>

Read ==
    /\ requests < MaxBusOps
    /\ \E addr \in BusAddrs :
          /\ returned' = BusRead(cpu.memory_bus, addr)
          /\ last' = Call("read", addr, 0)
    /\ pre' = cpu
    /\ requests' = requests + 1
    /\ UNCHANGED <<dots, frame, origin, cpu, ppu, steps>>

NextBus == Write \/ Request \/ Read

SpecBus == InitBus /\ [][NextBus]_vars

(***************************************************************************)
(* SpecPpu: the loop of Emulator::run_frame (src/src/machine/machine.rs):  *)
(* one Cpu::step, then Ppu::tick with the cycles it returned, on the same  *)
(* bus.  The machine starts somewhere in a frame: LY, the dot counter and  *)
(* the mode are those the Ppu has at that point, and the program has set   *)
(* LCDC, LYC, BGP and IF.                                                  *)
(***************************************************************************)
LcdcValues == {0, 128, 145}

LyValues == {0, 143, 144, 153}

DotValues == {0, 76, 250, 440, 452}

LycValues == {0, 144}

BgpValues == {0, 27}

IfValues == {0, 1}

\* NOP (4 dots), LD BC,d16 (12), JP 0x0100 (16), CALL 0x0100 (24), STOP.
PpuProgs == {<<0>>, <<1, 0, 0>>, <<195, 0, 1>>, <<205, 0, 1>>, <<16, 0>>}

\* The Ppu as tick leaves it on line ly after `dot` dots of that line.
PpuAt(ly, dot) ==
    [framebuffer |-> EmptyArr, frame_ready |-> FALSE,
     mode |-> IF ly > 144 \/ (ly = 144 /\ dot > 0) THEN MODE_VBLANK
              ELSE IF dot = 0 THEN (IF ly = 0 THEN MODE_OAM ELSE MODE_HBLANK)
              ELSE IF dot < OAM_DOTS THEN MODE_OAM
              ELSE IF dot < OAM_DOTS + XFER_DOTS THEN MODE_XFER
              ELSE MODE_HBLANK,
     dot |-> dot,
     rendered_this_line |-> (ly < 144 /\ dot >= OAM_DOTS)]

InitPpu ==
    /\ \E code \in PpuProgs, lcdc \in LcdcValues, ly \in LyValues,
          dot \in DotValues, lyc \in LycValues, bgp \in BgpValues,
          if_value \in IfValues :
          /\ ppu = IF lcdc = 0 THEN PpuNew ELSE PpuAt(ly, dot)
          /\ LET m == Boot(RomImage(256, code, 0))
                 bus == Poke(m.memory_bus,
                             <<<<LCDC, lcdc>>, <<LYC, lyc>>, <<BGP, bgp>>,
                               <<65295, if_value>>,
                               <<LY, IF lcdc = 0 THEN 0 ELSE ly>>>>)
             IN cpu = [m EXCEPT !.memory_bus =
                          IF lcdc = 0 THEN bus
                          ELSE update_lyc(set_stat_mode(bus, ppu.mode), ly)]
    /\ pre = cpu
    /\ returned = 0
    /\ last = Call("init", 0, 0)
    /\ steps = 0
    /\ requests = 0
    /\ origin = cpu
    /\ frame = NoFrame
    /\ dots = 0

\* One pass of the loop of Emulator::run_frame.  `pre` is the machine
\* between the step and the tick.
RunFrameStep ==
    /\ steps < MaxFrameSteps
    /\ cpu.panic = "none"
    /\ \E s \in {step(cpu)} :
          \E t \in {IF s.m.panic = "none"
                    THEN tick(ppu, s.ret, s.m.memory_bus)
                    ELSE [p |-> ppu, bus |-> s.m.memory_bus]} :
             /\ cpu' = [s.m EXCEPT !.memory_bus = t.bus]
             /\ ppu' = t.p
             /\ pre' = s.m
             /\ returned' = s.ret
             /\ last' = Call("tick", 0, s.ret)
    /\ steps' = steps + 1
    /\ UNCHANGED <<dots, frame, origin, requests>>

NextPpu == RunFrameStep

SpecPpu == InitPpu /\ [][NextPpu]_vars

(***************************************************************************)
(* SpecLoad: main, from the read of the ROM file to the first steps of     *)
(* Cpu::start, on images of every length around the header's end and with  *)
(* every cartridge-type byte; and reads of the bus main has built.         *)
(***************************************************************************)
LoadLens == {0, 308, 324, 327, 328, 330, 335, 336, 337, 32768}

\* Header contents other than the cartridge type, by offset.
HeaderFills ==
    {[x \in {} |-> 0],
     308 :> 90 @@ 309 :> 255 @@ 319 :> 65 @@ 323 :> 128 @@ 324 :> 48 @@
     325 :> 49 @@ 326 :> 3 @@ 328 :> 1 @@ 329 :> 2 @@ 330 :> 1 @@
     331 :> 51 @@ 332 :> 1 @@ 333 :> 231 @@ 334 :> 18 @@ 335 :> 52,
     322 :> 127 @@ 330 :> 2 @@ 335 :> 255,
     256 :> 211,
     256 :> 16 @@ 257 :> 1}

LoadImage(len, type, fill) ==
    LET all == (327 :> type) @@ fill
        kept == {i \in DOMAIN all : i < len /\ all[i] # 0}
    IN [len |-> len, bytes |-> [i \in kept |-> all[i]]]

NotStarted == [panic |-> "none"]

\* The process after main has returned.
Exited(code) == [panic |-> "none", exit_code |-> code]

\* main has built the Cpu and no panic has ended the thread.
Running(m) == "memory_bus" \in DOMAIN m /\ m.panic = "none"

\* The exit status of the process: the one a Rust program ends with after
\* a panic of the main thread (101), 0 after main has returned, NoValue
\* while it runs.
ExitCode(m) ==
    IF m.panic # "none" THEN 101
    ELSE IF "exit_code" \in DOMAIN m THEN m.exit_code
    ELSE NoValue

InitLoad ==
    /\ cpu = NotStarted
    /\ ppu = PpuNew
    /\ pre = cpu
    /\ returned = 0
    /\ last = Call("init", 0, 0)
    /\ steps = 0
    /\ requests = 0
    /\ origin = cpu
    /\ frame = NoFrame
    /\ dots = 0

\* main: Cartridge::load(rom), MemoryBus::new(cartridge), Cpu::new(bus).
Load ==
    /\ cpu = NotStarted
    /\ \E len \in LoadLens, type \in 0..255, fill \in HeaderFills :
          \E value \in {LoadImage(len, type, fill)} :
             /\ cpu' = IF CartridgeLoadPanic(value) # "none"
                       THEN [panic |-> CartridgeLoadPanic(value)]
                       ELSE CpuNew(BusNew(CartridgeLoad(value)))
             /\ returned' = IF CartridgeLoadPanic(value) # "none"
                            THEN NoValue
                            ELSE CartridgeLoad(value)
             /\ last' = Call("load", 0, value)
    /\ pre' = cpu
    /\ steps' = steps + 1
    /\ UNCHANGED <<dots, frame, origin, ppu, requests>>

\* main when fs::read fails: the message is printed and main returns.
ReadFileFails ==
    /\ cpu = NotStarted
    /\ cpu' = Exited(0)
    /\ pre' = cpu
    /\ returned' = NoValue
    /\ last' = Call("read_file", 0, 0)
    /\ steps' = steps + 1
    /\ UNCHANGED <<dots, frame, origin, ppu, requests>>

\* MemoryBus::read on the bus main has built, before Cpu::start.
ReadLoaded ==
    /\ steps = 1
    /\ Running(cpu)
    /\ requests < MaxRequests
    /\ \E addr \in BusAddrs :
          \E data \in {BusRead(cpu.memory_bus, addr)} :
             /\ cpu' = IF data = PANIC THEN Panic(cpu, "IndexOutOfBounds") ELSE cpu
             /\ returned' = data
             /\ last' = Call("read", addr, 0)
    /\ pre' = cpu
    /\ requests' = requests + 1
    /\ UNCHANGED <<dots, frame, origin, ppu, steps>>

\* Cpu::start up to the call of clock.
Start ==
    /\ steps = 1
    /\ Running(cpu)
    /\ cpu' = init_registers(cpu)
    /\ pre' = cpu
    /\ returned' = 0
    /\ last' = Call("start", 0, 0)
    /\ steps' = steps + 1
    /\ UNCHANGED <<dots, frame, origin, ppu, requests>>

\* One call of step from run_frame, after Cpu::start.
MainStep ==
    /\ steps >= 2
    /\ steps < 2 + MaxMainSteps
    /\ Running(cpu)
    /\ \E s \in {step(cpu)} :
          /\ cpu' = s.m
          /\ returned' = s.ret
    /\ pre' = cpu
    /\ last' = Call("step", 0, 0)
    /\ steps' = steps + 1
    /\ UNCHANGED <<dots, frame, origin, ppu, requests>>

NextLoad == ReadFileFails \/ Load \/ ReadLoaded \/ Start \/ MainStep

SpecLoad == InitLoad /\ [][NextLoad]_vars

(***************************************************************************)
(* SpecSeq: short instruction sequences run by Cpu::step from chosen       *)
(* registers, flags and stack pointers: `code` laid out from address       *)
(* `at`, `extra` further ROM bytes by offset.                              *)
(***************************************************************************)
SeqImage(at, code, extra) ==
    LET r == RomImage(at, code, 0)
    IN [r EXCEPT !.bytes = r.bytes @@ extra]

NoExtra == [x \in {} |-> 0]

RegFile(a, b, c, d, e, h, l, sp, writes) ==
    [a |-> a, b |-> b, c |-> c, d |-> d, e |-> e, h |-> h, l |-> l,
     sp |-> sp, writes |-> writes]

\* The Cpu that is about to run `code` from `at`, with the register file sc
\* and the flags f0.
SeqCpu(at, code, extra, sc, f0) ==
    Harness(SeqImage(at, code, extra), at, code, sc, f0)

\* Stack pointers whose two bytes below fall in work RAM, in echo RAM, in
\* external RAM, in ROM, on IE and HRAM, on the unusable region, on IF, and
\* across the end of ROM.
StackPointers ==
    {65534, 53248, 57344, 65024, 49153, 2, 0, 65281, 65296, 32769}

PairFiles(sp) ==
    {RegFile(18, 52, 86, 120, 154, 188, 222, sp, <<>>),
     RegFile(255, 0, 255, 1, 128, 0, 255, sp, <<>>),
     RegFile(0, 255, 240, 15, 0, 127, 1, sp, <<>>)}

\* PUSH rr ; POP rr for BC, DE, HL, AF.
StackCases ==
    \E code \in {<<197, 193>>, <<213, 209>>, <<229, 225>>, <<245, 241>>},
       sp \in StackPointers, f0 \in FlagValues :
        \E sc \in PairFiles(sp) :
            cpu = SeqCpu(256, code, NoExtra, sc, f0)

\* CALL 0x0150 from 0x0100 and from 0xFFFD, with RET at 0x0150; CALL cc.
CallCases ==
    \E at \in {256, 65533}, op \in {205, 196, 204, 212, 220},
       sp \in {65534, 53248, 2}, f0 \in FlagValues :
        \E sc \in PairFiles(sp) :
            cpu = SeqCpu(at, <<op, 80, 1>>, 336 :> 201, sc, f0)

BcdBytes == {16 * hi + lo : hi \in 0..9, lo \in 0..9}

EdgeBytes == {0, 1, 9, 15, 16, 25, 88, 127, 128, 153, 154, 240, 250, 255}

AluFile(a, b) == RegFile(a, b, 86, 120, 154, 192, 2, 65534, <<>>)

\* ADD A,B ; DAA and SUB B ; DAA on packed-BCD operands.
DaaCases ==
    \E code \in {<<128, 39>>, <<144, 39>>}, x \in BcdBytes, y \in BcdBytes :
        cpu = SeqCpu(256, code, NoExtra, AluFile(x, y), 240)

\* ADD, ADC, SUB, SBC, CP with operand B.
AluCases ==
    \E op \in {128, 136, 144, 152, 184},
       a \in EdgeBytes, b \in EdgeBytes, f0 \in {0, 16, 224, 240} :
        cpu = SeqCpu(256, <<op>>, NoExtra, AluFile(a, b), f0)

\* CP with each of its nine operands; b is in B, at (HL) and in the
\* immediate byte.
CpCases ==
    \E a \in EdgeBytes, b \in EdgeBytes, f0 \in {0, 16, 224, 240} :
        \E code \in {<<op>> : op \in 184..191} \cup {<<254, b>>} :
            cpu = SeqCpu(256, code, NoExtra,
                         RegFile(a, b, 86, 120, 154, 192, 2, 65534,
                                 <<<<49154, b>>>>), f0)

\* RRC B ; RLC B, RR B ; RL B and RR B ; CCF ; RL B.  A 0xCB instruction
\* leaves PC three bytes on, so the next opcode sits after a filler byte.
RotateCases ==
    \E code \in {<<203, 8, 0, 203, 0>>, <<203, 24, 0, 203, 16>>,
                 <<203, 24, 0, 63, 203, 16>>},
       v \in Byte, f0 \in {0, 16, 240} :
        cpu = SeqCpu(256, code, NoExtra, AluFile(1, v), f0)

\* The register file in which the operand `r` of INC / DEC (B C D E H L
\* (HL) A, in opcode order) holds v.
IncDecFile(r, v) ==
    RegFile(IF r = 7 THEN v ELSE 18, IF r = 0 THEN v ELSE 52,
            IF r = 1 THEN v ELSE 86, IF r = 2 THEN v ELSE 120,
            IF r = 3 THEN v ELSE 154, IF r = 4 THEN v ELSE 192,
            IF r = 5 THEN v ELSE 2, 65534,
            IF r = 6 THEN <<<<49154, v>>>> ELSE <<>>)

\* INC r ; DEC r for the eight operands.
IncDecCases ==
    \E r \in 0..7, v \in Byte, f0 \in {0, 16, 224, 240} :
        cpu = SeqCpu(256, <<8 * r + 4, 8 * r + 5>>, NoExtra, IncDecFile(r, v), f0)

\* JR r8 and JR cc,r8 with every offset, from ROM and from the top of HRAM.
JrCases ==
    \E at \in {256, 65533}, op \in {24, 32, 40, 48, 56}, r8 \in Byte,
       f0 \in {0, 16, 128, 240} :
        cpu = SeqCpu(at, <<op, r8>>, NoExtra, AluFile(1, 2), f0)

\* RETI and RET alone, after EI and after DI, returning to the address
\* whose bytes lie at SP; with SP = 0xFFFE the high byte is read from IE.
RetiCases ==
    \E code \in {<<217>>, <<251, 217>>, <<243, 217>>, <<201>>, <<251, 201>>},
       sp \in {53248, 65534, 57343},
       low \in {0, 80, 255}, high \in {0, 1, 255}, f0 \in {0, 240} :
        cpu = SeqCpu(256, code, NoExtra,
                     RegFile(1, 2, 3, 4, 5, 6, 7, sp,
                             <<<<sp, low>>, <<Wrap16(sp + 1), high>>>>), f0)

\* Stack pointers at the nibble, byte and word edges.
SpEdges ==
    {0, 1, 15, 16, 255, 256, 4095, 32767, 32768, 53263, 65280, 65408,
     65520, 65534, 65535}

\* ADD SP,r8 and LD HL,SP+r8 with every offset.
SpOffsetCases ==
    \E op \in {232, 248}, r8 \in Byte, sp \in SpEdges, f0 \in {0, 240} :
        cpu = SeqCpu(256, <<op, r8>>, NoExtra,
                     RegFile(1, 2, 3, 4, 5, 18, 52, sp, <<>>), f0)

SeqCases ==
    \/ StackCases
    \/ CallCases
    \/ DaaCases
    \/ AluCases
    \/ CpCases
    \/ RotateCases
    \/ IncDecCases
    \/ JrCases
    \/ RetiCases
    \/ SpOffsetCases

InitSeq ==
    /\ SeqCases
    /\ ppu = PpuNew
    /\ pre = cpu
    /\ returned = 0
    /\ last = Call("init", 0, 0)
    /\ steps = 0
    /\ requests = 0
    /\ origin = cpu
    /\ frame = NoFrame
    /\ dots = 0

SeqStep == StepBounded(MaxSeqSteps)

NextSeq == SeqStep

SpecSeq == InitSeq /\ [][NextSeq]_vars

(***************************************************************************)
(* SpecFrame: one call of Cpu::run_frame after Cpu::start, the loop taken  *)
(* one test and one body at a time.  The thread does nothing else, so the  *)
(* loop is always scheduled.                                               *)
(***************************************************************************)
CYCLES_PER_FRAME == 70224

\* All NOP; HALT; STOP; JP 0x0100; NOP, NOP, STOP; EI, HALT; CALL 0x0100.
FramePrograms ==
    {<<0>>, <<118>>, <<16, 0>>, <<195, 0, 1>>, <<0, 0, 16, 0>>, <<251, 118>>,
     <<205, 0, 1>>}

InitFrame ==
    /\ \E code \in FramePrograms : cpu = Boot(RomImage(256, code, 0))
    /\ ppu = PpuNew
    /\ pre = cpu
    /\ returned = 0
    /\ last = Call("init", 0, 0)
    /\ steps = 0
    /\ requests = 0
    /\ origin = cpu
    /\ frame = [at |-> "while", cycles_this_frame |-> 0]
    /\ dots = 0

\* while cycles_this_frame < CYCLES_PER_FRAME
RunFrameTest ==
    /\ frame.at = "while"
    /\ frame' = [frame EXCEPT !.at = IF frame.cycles_this_frame < CYCLES_PER_FRAME
                                      THEN "body" ELSE "returned"]
    /\ UNCHANGED <<cpu, ppu, pre, returned, last, steps, requests, origin, dots>>

\* let cycles = self.step(); cycles_this_frame += cycles as u64;
RunFrameBody ==
    /\ frame.at = "body"
    /\ \E s \in {step(cpu)} :
          /\ cpu' = s.m
          /\ returned' = s.ret
          /\ frame' = IF s.m.panic # "none"
                       THEN [frame EXCEPT !.at = "panicked"]
                       ELSE [at |-> "while",
                             cycles_this_frame |-> frame.cycles_this_frame + s.ret]
    /\ pre' = cpu
    /\ last' = Call("step", 0, 0)
    /\ UNCHANGED <<steps, ppu, requests, origin, dots>>

NextFrame == RunFrameTest \/ RunFrameBody

SpecFrame == InitFrame /\ [][NextFrame]_vars /\ WF_vars(NextFrame)

(***************************************************************************)
(* SpecLcd: a Ppu from Ppu::new and a fresh bus, ticked through whole      *)
(* frames, with take_frame called at any time and the program switching    *)
(* the LCD at a few points of the frame.  The bus is the one inside `cpu`; *)
(* no instruction runs.  Tile 0 has one pixel of colour 3 in its first     *)
(* row, shown through the palette 0xE4.                                    *)
(***************************************************************************)
\* LCD off and on, with the background on.
LcdLcdcValues == {17, 145}

LcdLycValues == {144}

\* Dots a tick advances by: the cheapest and the dearest instruction.
TickCosts == {4, 24}

\* <<line, dot>> at which the program writes LCDC.
LcdWritePoints == {<<0, 0>>, <<72, 100>>, <<150, 100>>}

DotsPerFrame == 154 * DOTS_PER_LINE

InitLcd ==
    /\ \E lcdc \in LcdLcdcValues, lyc \in LcdLycValues :
          LET m == CpuNew(BusNew(CartridgeLoad(RomImage(256, <<0>>, 0))))
          IN cpu = [m EXCEPT !.memory_bus =
                       Poke(m.memory_bus,
                            <<<<LCDC, lcdc>>, <<LYC, lyc>>, <<BGP, 228>>,
                              <<32768, 128>>, <<32769, 128>>>>)]
    /\ ppu = PpuNew
    /\ pre = cpu
    /\ returned = None
    /\ last = Call("init", 0, 0)
    /\ steps = 0
    /\ requests = 0
    /\ origin = cpu
    /\ frame = NoFrame
    /\ dots = 0

\* One call of Ppu::tick.  (`last` does not record the dot count.)
PpuTick ==
    /\ \E n \in TickCosts :
          \E t \in {tick(ppu, n, cpu.memory_bus)} :
             /\ ppu' = t.p
             /\ cpu' = [cpu EXCEPT !.memory_bus = t.bus]
             /\ dots' = IF And8(BusRead(cpu.memory_bus, LCDC), LCDC_ENABLE) = 0
                         THEN 0
                         ELSE (dots + n) % DotsPerFrame
    /\ returned' = None
    /\ last' = Call("tick", 0, 0)
    /\ UNCHANGED <<frame, origin, pre, steps, requests>>

\* One call of Ppu::take_frame.
TakeFrame ==
    /\ \E t \in {take_frame(ppu)} :
          /\ ppu' = t.p
          /\ returned' = t.ret
    /\ last' = Call("take_frame", 0, 0)
    /\ UNCHANGED <<dots, frame, origin, cpu, pre, steps, requests>>

\* The program writes LCDC, switching the LCD off or on.
WriteLcdc ==
    /\ <<BusRead(cpu.memory_bus, LY), ppu.dot>> \in LcdWritePoints
    /\ \E lcdc \in {Xor8(BusRead(cpu.memory_bus, LCDC), LCDC_ENABLE)} :
          /\ cpu' = [cpu EXCEPT !.memory_bus = BusWrite(cpu.memory_bus, LCDC, lcdc)]
          /\ last' = Call("write", LCDC, lcdc)
    /\ returned' = None
    /\ UNCHANGED <<dots, frame, origin, ppu, pre, steps, requests>>

NextLcd == PpuTick \/ TakeFrame \/ WriteLcdc

SpecLcd == InitLcd /\ [][NextLcd]_vars

(***************************************************************************)
(* Properties.  `pre`, `returned` and `last` record the last call, so a    *)
(* property of one call of step is a property of the state after it.       *)
(***************************************************************************)
AfterStep == last.op = "step" /\ cpu.panic = "none"

\* The last call of step fetched and executed an instruction.
Ran == AfterStep /\ ~pre.stop /\ ~pre.halt

\* The opcode the last call of step fetched.
Fetched == read_u8(pre, pre.program_counter)

\* IF & IE & 0x1F: the interrupts that are both requested and enabled.
Pending(m) == And8(And8(m.memory_bus.if_reg, m.memory_bus.ie_reg), 31)

LowestBit(p) == CHOOSE b \in 0..4 : Bit(p, b) = 1 /\ \A k \in 0..(b - 1) : Bit(p, k) = 0

SeveralBits(p) == \E b1, b2 \in 0..4 : b1 # b2 /\ Bit(p, b1) = 1 /\ Bit(p, b2) = 1

\* The interrupt dispatch the specification describes for the lowest
\* pending bit b: IF loses bit b, ime is cleared, PC is pushed, PC becomes
\* 0x40 + 8b.
Dispatched(b) ==
    /\ cpu.memory_bus.if_reg = pre.memory_bus.if_reg - 2 ^ b
    /\ ~cpu.interruption
    /\ cpu.stack_pointer = Wrap16(pre.stack_pointer - 2)
    /\ read_u8(cpu, Wrap16(pre.stack_pointer - 1)) = pre.program_counter \div 256
    /\ read_u8(cpu, Wrap16(pre.stack_pointer - 2)) = pre.program_counter % 256
    /\ cpu.program_counter = 64 + 8 * b

\* C1: when step is called with ime true and IF & IE & 0x1F non-zero (and
\* the CPU not stopped), the call executes no instruction: it clears the
\* lowest pending bit in IF, clears ime, pushes PC (high byte at SP-1, low
\* byte at SP-2), sets PC to 0x40 + 8b and returns 20.
C1_InterruptDispatch ==
    (AfterStep /\ ~pre.stop /\ pre.interruption /\ Pending(pre) # 0)
        => (Dispatched(LowestBit(Pending(pre))) /\ returned = 20)

\* C2: when the step that executes EI (with ime false before it) returns,
\* ime is still false and ime_pending is true.
C2_EiDelay ==
    (Ran /\ Fetched = 251 /\ ~pre.interruption)
        => (~cpu.interruption /\ cpu.ime_pending)

\* C3: a step called with halt set and IF & IE & 0x1F non-zero clears halt,
\* whatever ime is.
C3_HaltWakeUp ==
    (AfterStep /\ pre.halt /\ ~pre.stop /\ Pending(pre) # 0) => ~cpu.halt

\* C4: a step called with stop set returns 0 and leaves every register, the
\* flags, PC, SP, halt, stop, ime, ime_pending, the cycles field and all of
\* memory as they were.
C4_StopFreezes ==
    (AfterStep /\ pre.stop) => (returned = 0 /\ cpu = pre)

\* A stopped CPU has been stepped, with an interrupt both requested and
\* enabled and ime set: even then nothing moves.
C4_Witness ==
    /\ AfterStep
    /\ pre.stop
    /\ pre.interruption
    /\ Pending(pre) # 0
    /\ pre.cycles = 4
    /\ returned = 0

\* C5: the low four bits of F are zero in every state.
C5_FLowNibbleZero == cpu.register_f % 16 = 0

\* POP AF has popped a flags byte whose low nibble is not zero.
C5_Witness ==
    /\ Ran
    /\ Fetched = 241
    /\ read_u8(pre, pre.stack_pointer) % 16 # 0
    /\ cpu.register_a = read_u8(pre, Wrap16(pre.stack_pointer + 1))

\* C6: after any sequence of MemoryBus::write and request_interrupt calls,
\* bits 5..7 of the stored IF and IE values are zero.
C6_IfIeHighBitsZero ==
    /\ And8(cpu.memory_bus.if_reg, 224) = 0
    /\ And8(cpu.memory_bus.ie_reg, 224) = 0

\* A byte with bits 5..7 set has just been written to 0xFF0F, after IE took
\* a byte with bits 5..7 set as well: both registers kept the low five bits.
C6_Witness ==
    /\ last = Call("write", 65295, 255)
    /\ cpu.memory_bus.if_reg = 31
    /\ cpu.memory_bus.ie_reg = 1

CycleCounts == {0, 4, 8, 12, 16, 20, 24}

\* C7 as stated: the value step returns is one of 0, 4, 8, 12, 16, 20, 24
\* and equals the cycles field after the step.
C7_ReturnIsCyclesField ==
    AfterStep => (returned \in CycleCounts /\ returned = cpu.cycles)

\* C7, amended: the value step returns is one of 0, 4, 8, 12, 16, 20, 24;
\* it equals the cycles field after the step unless the CPU was stopped
\* when step was called, and then it is 0 and the cycles field keeps the
\* value it had.
C7_ReturnIsCyclesFieldUnlessStopped ==
    AfterStep =>
        /\ returned \in CycleCounts
        /\ ~pre.stop => returned = cpu.cycles
        /\ pre.stop => (returned = 0 /\ cpu.cycles = pre.cycles)

\* A stopped CPU has been stepped: 0 came back while the cycles field still
\* holds the 4 of the STOP instruction.
C7_Witness ==
    /\ AfterStep
    /\ pre.stop
    /\ returned = 0
    /\ cpu.cycles = 4

\* C8: a step that executes a 0xCB-prefixed instruction advances PC by
\* exactly 2 (modulo 2^16), and the sub-opcode it decodes is the byte at
\* the original PC + 1.
C8_CbAdvancesTwo ==
    (Ran /\ Fetched = 203)
        => /\ cpu.program_counter = Wrap16(pre.program_counter + 2)
           /\ cpu.opcode = read_u8(pre, Wrap16(pre.program_counter + 1))

\* Opcodes that always transfer control: JR, JP, JP HL, CALL, RET, RETI, RST.
Transfers == {24, 195, 233, 205, 201, 217, 199, 207, 215, 223, 231, 239, 247, 255}

\* Conditional JR / JP / CALL / RET, and the condition each one tests on the
\* flags: NZ, Z, NC, C.
JrCond == {32, 40, 48, 56}

Conditionals == JrCond \cup {194, 202, 210, 218, 196, 204, 212, 220, 192, 200, 208, 216}

CondIndex(op) == IF op \in JrCond THEN (op - 32) \div 8 ELSE ((op - 192) \div 8) % 4

CondHolds(f, cc) ==
    IF cc = 0 THEN ~Fcontains(f, FlagZ)
    ELSE IF cc = 1 THEN Fcontains(f, FlagZ)
    ELSE IF cc = 2 THEN ~Fcontains(f, FlagC)
    ELSE Fcontains(f, FlagC)

NotTaken == Fetched \in Conditionals /\ ~CondHolds(pre.register_f, CondIndex(Fetched))

\* C9: a step that executes a primary opcode other than 0xCB that is not a
\* jump, call, return or restart, or a conditional one whose condition is
\* false, advances PC by the documented length of the instruction, modulo
\* 2^16: 2 for JR cc, 3 for JP cc and CALL cc, 1 for RET cc.
C9_PcAdvancesByLength ==
    (Ran /\ Fetched # 203 /\ (Fetched \notin Transfers \cup Conditionals \/ NotTaken))
        => cpu.program_counter = Wrap16(pre.program_counter + DocLen(Fetched))

\* A three-byte conditional call at 0xFFFE was not taken: PC wrapped to 1.
C9_Witness ==
    /\ Ran
    /\ Fetched = 196
    /\ NotTaken
    /\ pre.program_counter = 65534
    /\ cpu.program_counter = 1

\* C10: when step is called with ime true and several bits set in
\* IF & IE & 0x1F, the lowest one is dispatched (PC = 0x40 + 8b, bit b of IF
\* cleared) and the higher ones stay set in IF.
C10_LowestBitFirst ==
    (AfterStep /\ ~pre.stop /\ pre.interruption /\ SeveralBits(Pending(pre)))
        => LET b == LowestBit(Pending(pre))
           IN /\ cpu.program_counter = 64 + 8 * b
              /\ cpu.memory_bus.if_reg = pre.memory_bus.if_reg - 2 ^ b

LcdOn(m) == And8(BusRead(m.memory_bus, LCDC), LCDC_ENABLE) # 0

\* C11: with the LCD enabled, when Ppu::tick moves LY from 143 to 144 the
\* VBlank bit (bit 0) of IF is set on the bus when that tick returns.
C11_VBlankRaised ==
    (last.op = "tick" /\ LcdOn(pre)
        /\ BusRead(pre.memory_bus, LY) = 143 /\ BusRead(cpu.memory_bus, LY) = 144)
        => Bit(cpu.memory_bus.if_reg, 0) = 1

Bus == cpu.memory_bus

\* C12: a read of 0xFF0F returns IF | 0xE0 and a read of 0xFFFF returns
\* IE | 0xE0; a write of v followed by a read of the same register returns
\* (v & 0x1F) | 0xE0.
C12_IfIeReadHighBitsSet ==
    /\ (last.op = "read" /\ last.addr = 65295) => returned = Or8(Bus.if_reg, 224)
    /\ (last.op = "read" /\ last.addr = 65535) => returned = Or8(Bus.ie_reg, 224)
    /\ (last.op = "write" /\ last.addr \in {65295, 65535})
          => BusRead(Bus, last.addr) = Or8(And8(last.data, 31), 224)

\* C13: after initialisation and before the first step, A=0x01, B=0x00,
\* C=0x13, D=0x00, E=0xD8, H=0x01, L=0x4D, SP=0xFFFE, PC=0x0100, F=Z|H|C
\* (only Z when the header checksum byte is 0x00), IF=0xE1, IE=0x00, and
\* ime, ime_pending, halt and stop are false.
C13_InitialState ==
    last.op = "init" =>
        /\ cpu.register_a = 1 /\ cpu.register_b = 0 /\ cpu.register_c = 19
        /\ cpu.register_d = 0 /\ cpu.register_e = 216
        /\ cpu.register_h = 1 /\ cpu.register_l = 77
        /\ cpu.stack_pointer = 65534 /\ cpu.program_counter = 256
        /\ cpu.register_f =
              IF Bus.cartridge.header_checksum = 0 THEN FlagZ
              ELSE FlagZ + FlagH + FlagC
        /\ read_u8(cpu, 65295) = 225
        /\ Bus.ie_reg = 0
        /\ ~cpu.interruption /\ ~cpu.ime_pending /\ ~cpu.halt /\ ~cpu.stop

\* Echo RAM addresses among the addresses the bus is driven with, and the
\* unusable ones.
EchoAddrs == {a \in BusAddrs : a >= 57344 /\ a <= 65023}

UnusableAddrs == {a \in BusAddrs : a >= 65184 /\ a <= 65279}

\* C14: echo RAM mirrors work RAM both ways: a write to a in
\* 0xE000..=0xFDFF is read back at a - 0x2000, a write to a - 0x2000 is read
\* back at a, and after any sequence of writes read(a) = read(a - 0x2000).
C14_EchoMirrors ==
    /\ \A a \in EchoAddrs : BusRead(Bus, a) = BusRead(Bus, a - 8192)
    /\ (last.op = "write" /\ last.addr \in EchoAddrs)
          => BusRead(Bus, last.addr - 8192) = last.data
    /\ (last.op = "write" /\ last.addr + 8192 \in EchoAddrs)
          => BusRead(Bus, last.addr + 8192) = last.data

\* 0xFDFF has just been written through the echo, over a byte that had been
\* written through work RAM at 0xDDFF and was visible at 0xFDFF.
C14_Witness ==
    /\ last = Call("write", 65023, 255)
    /\ BusRead(pre.memory_bus, 65023) = 225
    /\ BusRead(Bus, 56831) = 255

\* C15: every address of 0xFEA0..=0xFEFF reads 0xFF after any sequence of
\* writes, and a write to such an address leaves the bus as it was, so no
\* later read of any address changes.
C15_UnusableRegion ==
    /\ \A a \in UnusableAddrs : BusRead(Bus, a) = 255
    /\ (last.op = "read" /\ last.addr \in UnusableAddrs) => returned = 255
    /\ (last.op = "write" /\ last.addr \in UnusableAddrs) => Bus = pre.memory_bus

\* 0xFEFF has just been written with 0xE1, next to an OAM byte written
\* before: it still reads 0xFF and the OAM byte is intact.
C15_Witness ==
    /\ last = Call("write", 65279, 225)
    /\ BusRead(Bus, 65279) = 255
    /\ BusRead(Bus, 65183) = 225
    /\ Bus = pre.memory_bus

RomAddrs == {a \in BusAddrs : a <= 32767}

EramAddrs == {a \in BusAddrs : a >= 40960 /\ a <= 49151}

\* C16: with a ROM-only cartridge a read below 0x8000 returns rom[addr], a
\* read of any address of 0xA000..=0xBFFF returns 0xFF, and a write to an
\* address of either range leaves the bus as it was, so no later read
\* changes.
C16_RomOnlyCartridge ==
    /\ \A a \in RomAddrs : BusRead(Bus, a) = VecGet(Bus.cartridge.game_data, a)
    /\ \A a \in EramAddrs : BusRead(Bus, a) = 255
    /\ (last.op = "write" /\ last.addr \in RomAddrs \cup EramAddrs)
          => Bus = pre.memory_bus

\* C17: request_interrupt(bits) sets exactly the bits bits & 0x1F in IF,
\* clears no bit that was set, changes nothing else on the bus, and calling
\* it again with the same argument changes nothing.
C17_RequestInterrupt ==
    last.op = "request_interrupt" =>
        /\ Bus.if_reg = Or8(pre.memory_bus.if_reg, And8(last.data, 31))
        /\ \A b \in 0..7 : Bit(pre.memory_bus.if_reg, b) = 1 => Bit(Bus.if_reg, b) = 1
        /\ [Bus EXCEPT !.if_reg = pre.memory_bus.if_reg] = pre.memory_bus
        /\ BusRequestInterrupt(Bus, last.data) = Bus

\* request_interrupt(0xE1) on a bus whose IF already holds 0x1F after a
\* write of 0xFF: bits 1..4 are not part of the request and stay set.
C17_Witness ==
    /\ last = Call("request_interrupt", 0, 225)
    /\ pre.memory_bus.if_reg = 31
    /\ Bus.if_reg = 31

\* The opcodes that name no instruction (process, cpu.rs:170-446).
UnusedOps == {211, 219, 221, 227, 228, 235, 236, 237, 244, 252, 253}

\* The last call of step fetched an opcode, whether or not it completed.
Attempted == last.op = "step" /\ ~pre.stop /\ ~pre.halt

\* The error value the specification gives the caller of step for an
\* opcode that names no instruction.
IllegalOpcode(byte, pc) == [error |-> "IllegalOpcode", opcode |-> byte, pc |-> pc]

\* C18: step on one of the 11 opcodes 0xD3, 0xDB, 0xDD, 0xE3, 0xE4, 0xEB,
\* 0xEC, 0xED, 0xF4, 0xFC, 0xFD returns to its caller an error value that
\* carries the offending byte and the PC; step on any of the other 245
\* opcodes does not end with that error.
C18_IllegalOpcodeReported ==
    Attempted =>
        IF Fetched \in UnusedOps
        THEN /\ cpu.panic = "none"
             /\ returned = IllegalOpcode(Fetched, pre.program_counter)
        ELSE cpu.panic # "IllegalOpcode"

Registers(m) ==
    <<m.register_a, m.register_f, m.register_b, m.register_c, m.register_d,
      m.register_e, m.register_h, m.register_l, m.stack_pointer>>

\* C19: STOP (0x10) followed by 0x00 puts the CPU in the stop state and
\* advances PC by 2; followed by any other byte it fails with
\* MalformedStop and leaves the stop flag, PC and the registers as they
\* were.
C19_Stop ==
    (Attempted /\ Fetched = 16) =>
        IF Imm8(pre) = 0
        THEN /\ cpu.panic = "none"
             /\ cpu.stop
             /\ cpu.program_counter = Wrap16(pre.program_counter + 2)
        ELSE /\ cpu.panic = "MalformedStop"
             /\ cpu.stop = pre.stop
             /\ cpu.program_counter = pre.program_counter
             /\ Registers(cpu) = Registers(pre)

\* STOP followed by 0xFE: the step has failed with MalformedStop.
C19_Witness ==
    /\ Attempted
    /\ Fetched = 16
    /\ Imm8(pre) = 254
    /\ cpu.panic = "MalformedStop"
    /\ ~cpu.stop

\* The error value the specification gives the caller of Cartridge::load
\* for a header it cannot parse.
InvalidHeader == [error |-> "InvalidHeader"]

\* C20: Cartridge::load returns the error InvalidHeader when the byte
\* vector is shorter than 336 bytes or byte 0x147 is not one of the 28
\* cartridge-type values; on every other input it returns a cartridge
\* whose header fields equal the corresponding bytes of the vector.
C20_LoadReportsInvalidHeader ==
    last.op = "load" =>
        /\ cpu.panic = "none"
        /\ IF last.data.len < 336 \/ VecGet(last.data, 327) \notin CartridgeTypeBytes
           THEN returned = InvalidHeader
           ELSE /\ returned.game_data = last.data
                /\ returned.cgb_flag = VecGet(last.data, 323)
                /\ returned.sgb_flag = VecGet(last.data, 326)
                /\ <<VecGet(last.data, 327), returned.cartridge_type>> \in CartridgeTypeTable
                /\ returned.rom_size = VecGet(last.data, 328)
                /\ returned.ram_size = VecGet(last.data, 329)
                /\ returned.destination_code =
                      CASE VecGet(last.data, 330) = 0 -> <<"Japan">>
                        [] VecGet(last.data, 330) = 1 -> <<"Overseas">>
                        [] OTHER -> <<"Unknown", VecGet(last.data, 330)>>
                /\ returned.old_licensee_code = VecGet(last.data, 331)
                /\ returned.mask_rom_version_number = VecGet(last.data, 332)
                /\ returned.header_checksum = VecGet(last.data, 333)
                /\ returned.global_checksum \div 256 = VecGet(last.data, 334)
                /\ returned.global_checksum % 256 = VecGet(last.data, 335)

\* C21: MemoryBus::read is total: on the bus of any cartridge that
\* Cartridge::load accepts, images shorter than 32 KiB included, a read of
\* any address returns a byte and does not fail.
C21_ReadTotal ==
    last.op = "read" => (cpu.panic = "none" /\ returned \in Byte)

\* C22: the process ends with exit code 1 when the ROM file cannot be read
\* or its header does not parse, and with 2 when execution hits
\* IllegalOpcode or MalformedStop; so it ends with 0 in none of these
\* cases.
C22_ExitCodes ==
    /\ last.op = "read_file" => ExitCode(cpu) = 1
    /\ (last.op = "load" /\ ~Running(cpu)) => ExitCode(cpu) = 1
    /\ cpu.panic \in {"IllegalOpcode", "MalformedStop"} => ExitCode(cpu) = 2

\* Byte k of the program the run started at.
Code(k) == read_u8(origin, Wrap16(origin.program_counter + k))

\* The run has made exactly n calls of step and none has failed.
AfterSteps(n) == last.op = "step" /\ steps = n /\ cpu.panic = "none"

\* The register pair a PUSH / POP opcode names: BC, DE, HL, AF.
PairValue(m, op) ==
    CASE op \in {197, 193} -> m.register_b * 256 + m.register_c
      [] op \in {213, 209} -> m.register_d * 256 + m.register_e
      [] op \in {229, 225} -> m.register_h * 256 + m.register_l
      [] op \in {245, 241} -> m.register_a * 256 + And8(m.register_f, 240)

\* PUSH rr and then POP rr have run.
PushedAndPopped ==
    AfterSteps(2) /\ Code(0) \in {197, 213, 229, 245} /\ Code(1) = Code(0) - 4

\* An address whose byte reads back as it was written: video, external,
\* work and echo RAM, OAM, the I/O page but for IF, and HRAM.
ReadsBack(addr) ==
    \/ addr >= 32768 /\ addr <= 65183
    \/ addr >= 65280 /\ addr <= 65534 /\ addr # 65295

\* The two bytes below sp read back what is written to them.
StackReadsBack(sp) ==
    ReadsBack(Wrap16(sp + 65535)) /\ ReadsBack(Wrap16(sp + 65534))

\* C23 as stated: for every register pair, every value of it and every
\* value of SP, PUSH rr then POP rr leaves rr equal to the pushed value
\* (AF with the low nibble of F zero) and SP as before the PUSH.
C23_PushPopAnySp ==
    PushedAndPopped =>
        /\ PairValue(cpu, Code(0)) = PairValue(origin, Code(0))
        /\ cpu.stack_pointer = origin.stack_pointer

\* C23: when the two bytes below SP read back what is written to them,
\* PUSH rr then POP rr leaves rr equal to the pushed value (AF with the low
\* nibble of F zero); SP is as before the PUSH whatever it was.
C23_PushPopRoundTrip ==
    PushedAndPopped =>
        /\ StackReadsBack(origin.stack_pointer)
              => PairValue(cpu, Code(0)) = PairValue(origin, Code(0))
        /\ cpu.stack_pointer = origin.stack_pointer

\* PUSH DE ; POP DE with DE = 0x789A and the stack in echo RAM.
C23_Witness ==
    /\ PushedAndPopped
    /\ Code(0) = 213
    /\ origin.stack_pointer = 65024
    /\ origin.register_d = 120 /\ origin.register_e = 154
    /\ cpu.register_d = 120 /\ cpu.register_e = 154
    /\ BusRead(cpu.memory_bus, 56830) = 154

\* The address after the three bytes of the CALL the run started at.
ReturnAddress == Wrap16(origin.program_counter + 3)

CallTarget == Code(2) * 256 + Code(1)

BcdValue(b) == 10 * (b \div 16) + (b % 16)

PackedBcd(n) == 16 * (n \div 10) + (n % 10)

IsBcd(b) == b \div 16 <= 9 /\ b % 16 <= 9

\* The run | op B ; DAA | on packed-BCD A and B has finished.
DaaAfter(op) ==
    /\ AfterSteps(2)
    /\ Code(0) = op
    /\ Code(1) = 39
    /\ IsBcd(origin.register_a)
    /\ IsBcd(origin.register_b)

\* C25: for packed-BCD x and y, ADD A (=x), y then DAA leaves A the packed
\* BCD of (x+y) mod 100 with C set iff x+y >= 100; SUB y from A (=x) then
\* DAA leaves A the packed BCD of (x-y) mod 100 with C set iff x < y; in
\* both cases Z is set iff A is 0 and H is clear.
C25_DaaBcd ==
    /\ DaaAfter(128) =>
          LET total == BcdValue(origin.register_a) + BcdValue(origin.register_b)
          IN /\ cpu.register_a = PackedBcd(total % 100)
             /\ Fcontains(cpu.register_f, FlagC) <=> total >= 100
    /\ DaaAfter(144) =>
          LET x == BcdValue(origin.register_a)
              y == BcdValue(origin.register_b)
          IN /\ cpu.register_a = PackedBcd((x - y + 100) % 100)
             /\ Fcontains(cpu.register_f, FlagC) <=> x < y
    /\ (DaaAfter(128) \/ DaaAfter(144)) =>
          /\ Fcontains(cpu.register_f, FlagZ) <=> cpu.register_a = 0
          /\ ~Fcontains(cpu.register_f, FlagH)

\* The operand of the CP the run started at: a register or (HL) for
\* 0xB8..0xBF, the immediate byte for 0xFE.
CpOperand ==
    IF Code(0) = 254 THEN Imm8(origin) ELSE GetOperand(origin, Code(0) - 184)

\* C26: for all values of A and of the operand, CP leaves A and every
\* other register unchanged and produces exactly the Z, N, H and C flags
\* that SUB with the same operand produces.
C26_CpIsSubWithoutResult ==
    (AfterSteps(1) /\ Code(0) \in (184..191) \cup {254}) =>
        /\ [Registers(cpu) EXCEPT ![2] = 0] = [Registers(origin) EXCEPT ![2] = 0]
        /\ cpu.register_f = sub(origin.register_f, origin.register_a, CpOperand).f

\* CP (HL) with A = 0x10 and 0x01 at (HL): A is still 0x10 and the flags
\* are N and H, the ones of SUB.
C26_Witness ==
    /\ AfterSteps(1)
    /\ Code(0) = 190
    /\ origin.register_a = 16
    /\ CpOperand = 1
    /\ origin.register_f = 16
    /\ cpu.register_a = 16
    /\ cpu.register_f = 96

\* The carry the instruction the run started at takes in: the C flag for
\* ADC (0x88) and SBC (0x98), nothing for ADD (0x80) and SUB (0x90).
CarryIn ==
    IF Code(0) \in {136, 152} /\ Fcontains(origin.register_f, FlagC) THEN 1 ELSE 0

\* C27: ADD A,B and ADC A,B store (A + B [+ carry]) mod 256 in A and set Z
\* iff the result is 0, N = 0, H iff (A & 0x0F) + (B & 0x0F) [+ carry] >
\* 0x0F, and C iff A + B [+ carry] > 0xFF; ADD takes no carry in.
C27_AddAdc ==
    (AfterSteps(1) /\ Code(0) \in {128, 136}) =>
        LET total == origin.register_a + origin.register_b + CarryIn
        IN /\ cpu.register_a = total % 256
           /\ Fcontains(cpu.register_f, FlagZ) <=> total % 256 = 0
           /\ ~Fcontains(cpu.register_f, FlagN)
           /\ Fcontains(cpu.register_f, FlagH) <=>
                 (origin.register_a % 16) + (origin.register_b % 16) + CarryIn > 15
           /\ Fcontains(cpu.register_f, FlagC) <=> total > 255

\* ADC A,B with A = 0x0F, B = 0x00 and C set: A = 0x10 and the half carry
\* comes from the carry-in alone.
C27_Witness ==
    /\ AfterSteps(1)
    /\ Code(0) = 136
    /\ origin.register_a = 15
    /\ origin.register_b = 0
    /\ Fcontains(origin.register_f, FlagC)
    /\ cpu.register_a = 16
    /\ cpu.register_f = 32

\* C28: SUB B and SBC A,B store (A - B [- carry]) mod 256 in A and set Z
\* iff the result is 0, N = 1, H iff (A & 0x0F) < (B & 0x0F) [+ carry], and
\* C iff A < B [+ carry], B = 0xFF with carry-in 1 included.
C28_SubSbc ==
    (AfterSteps(1) /\ Code(0) \in {144, 152}) =>
        LET result == (origin.register_a - origin.register_b - CarryIn + 512) % 256
        IN /\ cpu.register_a = result
           /\ Fcontains(cpu.register_f, FlagZ) <=> result = 0
           /\ Fcontains(cpu.register_f, FlagN)
           /\ Fcontains(cpu.register_f, FlagH) <=>
                 (origin.register_a % 16) < (origin.register_b % 16) + CarryIn
           /\ Fcontains(cpu.register_f, FlagC) <=>
                 origin.register_a < origin.register_b + CarryIn

\* SBC A,B with A = 0xFF, B = 0xFF and C set: A = 0xFF with N, H and C.
C28_Witness ==
    /\ AfterSteps(1)
    /\ Code(0) = 152
    /\ origin.register_a = 255
    /\ origin.register_b = 255
    /\ Fcontains(origin.register_f, FlagC)
    /\ cpu.register_a = 255
    /\ cpu.register_f = 112

\* The program at the origin is the two CB-prefixed instructions first, second
\* on register B, each occupying three bytes of program-counter advance.
RotatePair(first, second) ==
    /\ Code(0) = 203 /\ Code(1) = first
    /\ Code(3) = 203 /\ Code(4) = second

\* The program at the origin is RR B, CCF, RL B.
RotateFlipped ==
    /\ Code(0) = 203 /\ Code(1) = 24
    /\ Code(3) = 63
    /\ Code(4) = 203 /\ Code(5) = 16

\* C29: for every 8-bit value v, RLC of RRC of v is v; RL of RR of v is v when
\* RL sees the C flag RR left, and differs from v when C is flipped in between.
C29_RotateInverse ==
    /\ (AfterSteps(2) /\ RotatePair(8, 0)) => cpu.register_b = origin.register_b
    /\ (AfterSteps(2) /\ RotatePair(24, 16)) => cpu.register_b = origin.register_b
    /\ (AfterSteps(3) /\ RotateFlipped) => cpu.register_b # origin.register_b

C29_Witness ==
    /\ AfterSteps(2) /\ RotatePair(24, 16)
    /\ origin.register_b = 129 /\ Fcontains(origin.register_f, FlagC)
    /\ pre.register_b = 192 /\ Fcontains(pre.register_f, FlagC)
    /\ cpu.register_b = 129

\* The program at the origin is INC then DEC of operand r (B C D E H L (HL) A).
IncThenDec(r) == Code(0) = 8 * r + 4 /\ Code(1) = 8 * r + 5

\* C30: for every 8-bit register and the byte at (HL), and every starting
\* value, INC followed by DEC of the same operand restores the value, leaves
\* N set and leaves C as it was before the INC.
C30_IncDecRestores ==
    \A r \in 0..7 :
        (AfterSteps(2) /\ IncThenDec(r)) =>
            /\ GetOperand(cpu, r) = GetOperand(origin, r)
            /\ Fcontains(cpu.register_f, FlagN)
            /\ Fcontains(cpu.register_f, FlagC) <=> Fcontains(origin.register_f, FlagC)

C30_Witness ==
    /\ AfterSteps(2) /\ IncThenDec(6)
    /\ GetOperand(origin, 6) = 255 /\ origin.register_f = 16
    /\ GetOperand(pre, 6) = 0 /\ pre.register_f = 176
    /\ GetOperand(cpu, 6) = 255 /\ cpu.register_f = 112

\* The offset byte of the instruction at the origin, as a signed number.
SignedOffset == IF Code(1) >= 128 THEN Code(1) - 256 ELSE Code(1)

\* The instruction at the origin is JR, or a JR cc whose condition holds.
JrTaken ==
    \/ Code(0) = 24
    \/ Code(0) \in JrCond /\ CondHolds(origin.register_f, CondIndex(Code(0)))

\* C31: JR r8 and a taken JR cc,r8 at p set PC = (p + 2 + signext(r8)) mod
\* 2^16 and cost 12 dots; a JR cc,r8 whose condition is false sets PC = p + 2
\* and costs 8 dots; the flags are unchanged in either case.
C31_RelativeJump ==
    (AfterSteps(1) /\ Code(0) \in JrCond \cup {24}) =>
        LET p == origin.program_counter
        IN /\ cpu.register_f = origin.register_f
           /\ JrTaken =>
                 /\ cpu.program_counter = (p + 2 + SignedOffset + 65536) % 65536
                 /\ cpu.cycles = 12 /\ returned = 12
           /\ ~JrTaken =>
                 /\ cpu.program_counter = p + 2
                 /\ cpu.cycles = 8 /\ returned = 8

\* JR NZ,-128 at 0x0100 with Z clear lands on 0x0082.
C31_Witness ==
    /\ AfterSteps(1) /\ Code(0) = 32 /\ Code(1) = 128
    /\ origin.program_counter = 256 /\ origin.register_f = 16
    /\ cpu.program_counter = 130 /\ cpu.cycles = 12 /\ cpu.register_f = 16

\* The last call of step popped PC as RET does: low byte from SP, high byte
\* from SP + 1, SP two higher, 16 dots.
PoppedPc ==
    /\ cpu.program_counter =
          read_u8(pre, pre.stack_pointer)
          + 256 * read_u8(pre, Wrap16(pre.stack_pointer + 1))
    /\ cpu.stack_pointer = Wrap16(pre.stack_pointer + 2)
    /\ cpu.cycles = 16 /\ returned = 16

\* C32: RETI pops PC exactly as RET does and leaves ime true and
\* ime_pending false as soon as its own step returns.
C32_Reti ==
    /\ (Ran /\ Fetched \in {201, 217}) => PoppedPc
    /\ (Ran /\ Fetched = 217) => (cpu.interruption /\ ~cpu.ime_pending)

\* RETI with ime false before: ime is true when the step returns.
C32_Witness ==
    /\ Ran /\ Fetched = 217
    /\ ~pre.interruption /\ pre.stack_pointer = 53248
    /\ cpu.program_counter = 336 /\ cpu.stack_pointer = 53250
    /\ cpu.interruption /\ ~cpu.ime_pending

\* C33: after the step that executes DI returns, ime is false and
\* ime_pending is false, whatever their values before; EI immediately
\* followed by DI does not leave ime true.
C33_Di ==
    (Ran /\ Fetched = 243) => (~cpu.interruption /\ ~cpu.ime_pending)

\* EI and then DI have run, and ime was true when DI began.
C33_Witness ==
    /\ AfterSteps(2) /\ Code(0) = 251 /\ Code(1) = 243
    /\ Fetched = 243 /\ pre.interruption
    /\ ~cpu.interruption /\ ~cpu.ime_pending

\* The second byte of the 0xCB instruction the last call of step fetched.
SubOpcode == read_u8(pre, Wrap16(pre.program_counter + 1))

\* The documented cost of a 0xCB instruction: 8 dots on a register, 12 for
\* BIT n,(HL), 16 for the others on (HL).
CbCost(sub_op) ==
    IF sub_op % 8 # 6 THEN 8
    ELSE IF sub_op \in 64..127 THEN 12
    ELSE 16

\* C34: a 0xCB-prefixed instruction costs 8 dots when its operand is a
\* register, 12 dots for BIT n,(HL), and 16 dots for RES, SET and the
\* rotate / shift / swap family on (HL), for every bit index n.
C34_CbCost ==
    (Ran /\ Fetched = 203) =>
        (cpu.cycles = CbCost(SubOpcode) /\ returned = CbCost(SubOpcode))

\* C35: for every SP and every r8, ADD SP,r8 sets SP = (SP + signext(r8))
\* mod 2^16 and LD HL,SP+r8 sets HL to that value leaving SP unchanged; both
\* clear Z and N, set H iff (SP & 0x0F) + (r8 & 0x0F) > 0x0F and C iff
\* (SP & 0xFF) + r8 as an unsigned byte > 0xFF.
C35_SpOffset ==
    (AfterSteps(1) /\ Code(0) \in {232, 248}) =>
        LET sp == origin.stack_pointer
            sum == (sp + SignedOffset + 65536) % 65536
        IN /\ Code(0) = 232 => /\ cpu.stack_pointer = sum
                                /\ HL(cpu) = HL(origin)
           /\ Code(0) = 248 => /\ HL(cpu) = sum
                                /\ cpu.stack_pointer = sp
           /\ ~Fcontains(cpu.register_f, FlagZ)
           /\ ~Fcontains(cpu.register_f, FlagN)
           /\ Fcontains(cpu.register_f, FlagH) <=> (sp % 16) + (Code(1) % 16) > 15
           /\ Fcontains(cpu.register_f, FlagC) <=> (sp % 256) + Code(1) > 255

\* LD HL,SP-1 with SP = 0x0000: HL = 0xFFFF, SP stays, no carry from the
\* low byte.
C35_Witness ==
    /\ AfterSteps(1) /\ Code(0) = 248 /\ Code(1) = 255
    /\ origin.stack_pointer = 0 /\ origin.register_f = 240
    /\ HL(cpu) = 65535 /\ cpu.stack_pointer = 0 /\ cpu.register_f = 0

\* C36: every call of run_frame eventually returns, also after HALT or STOP
\* has been executed.
C36_RunFrameReturns == <>(frame.at = "returned")

\* The byte of an I/O register on the bus of machine m.
Io(m, reg) == BusRead(m.memory_bus, reg)

\* C37: with the LCD enabled and no CPU write to LY, LY increases by one
\* after every 456 dots ticked, wraps from 153 to 0 and is never above 153;
\* at each line change the coincidence flag (STAT bit 2) is set iff LY = LYC.
C37_LyCounts ==
    /\ [](Io(cpu, LY) = dots \div DOTS_PER_LINE /\ Io(cpu, LY) <= 153)
    /\ [][(LcdOn(cpu) /\ Io(cpu, LY)' # Io(cpu, LY))
            => (Bit(Io(cpu, STAT)', 2) = 1 <=> Io(cpu, LY)' = Io(cpu, LYC)')]_vars

\* The tick that ends line 153: LY is 0 again and the frame's dots start
\* over.
C37_Witness ==
    /\ last.op = "tick" /\ LcdOn(cpu)
    /\ Io(cpu, LY) = 0 /\ dots = 0 /\ ppu.dot = 0
    /\ ppu.mode = MODE_VBLANK
    /\ Bit(Io(cpu, STAT), 2) = 0

\* C38: after every Ppu::tick, starting from Ppu::new and a bus whose STAT
\* no one has written, the low two bits of STAT equal the Ppu's mode field.
C38_StatMode ==
    last.op = "tick" => Io(cpu, STAT) % 4 = ppu.mode

\* A step on which the Ppu enters VBlank mode.
EntersVBlank == ppu.mode # MODE_VBLANK /\ ppu'.mode = MODE_VBLANK

\* C39: frame_ready is raised on the entry into VBlank mode, once per pass
\* through lines 144..153; take_frame returns the framebuffer iff
\* frame_ready is set and clears it, so at most once per entry and None until
\* the next; every framebuffer byte is in 0..3.
C39_FrameReady ==
    /\ [](\A i \in DOMAIN ppu.framebuffer : ppu.framebuffer[i] \in 0..3)
    /\ [](ppu.mode = MODE_VBLANK
            => (Io(cpu, LY) >= 144 \/ (Io(cpu, LY) = 0 /\ ppu.dot = 0)))
    /\ [](Io(cpu, LY) > 144 => ppu.mode = MODE_VBLANK)
    /\ [][/\ EntersVBlank => (ppu'.frame_ready /\ Io(cpu, LY)' = 144)
          /\ (ppu'.frame_ready /\ ~ppu.frame_ready) => EntersVBlank
          /\ (~ppu'.frame_ready /\ ppu.frame_ready) => last'.op = "take_frame"
          /\ last'.op = "take_frame"
                => /\ returned'.some = ppu.frame_ready
                   /\ ~ppu'.frame_ready
                   /\ returned'.some => returned'.pixels = ppu.framebuffer]_vars

\* take_frame has handed out the frame of this VBlank, with a pixel of
\* shade 3 in it.
C39_Witness ==
    /\ last.op = "take_frame" /\ returned.some
    /\ ppu.mode = MODE_VBLANK /\ Io(cpu, LY) = 150 /\ LcdOn(cpu)
    /\ ~ppu.frame_ready
    /\ \E i \in DOMAIN returned.pixels : returned.pixels[i] = 3

\* VRAM, work RAM, OAM, the I/O range but for 0xFF0F, and high RAM.
StoredAddrs ==
    (32768..40959) \cup (49152..57343) \cup (65024..65183)
        \cup ((65280..65407) \ {65295}) \cup (65408..65534)

\* The echo address of a work-RAM address that has one.
EchoAlias(a) == IF a \in 49152..56831 THEN a + 8192 ELSE a

\* The addresses read back after a write: the ends of every region and
\* their neighbours.
ProbeAddrs ==
    (BusAddrs \cup {a + 1 : a \in BusAddrs} \cup {a - 1 : a \in BusAddrs})
        \cap (0..65535)

\* C40: for an address a of VRAM, work RAM, OAM, high RAM or the I/O range
\* other than 0xFF0F, write(a, d) followed by read(a) returns d, and the
\* write changes the value read at no other address but the echo alias of a.
C40_WriteThenRead ==
    (last.op = "write" /\ last.addr \in StoredAddrs)
        => /\ BusRead(Bus, last.addr) = last.data
           /\ \A b \in ProbeAddrs \ {last.addr, EchoAlias(last.addr)} :
                 BusRead(Bus, b) = BusRead(pre.memory_bus, b)

\* 0xE1 written to the first byte of work RAM, over 0xFF: it reads back
\* there and at its echo 0xE000.
C40_Witness ==
    /\ last = Call("write", 49152, 225)
    /\ BusRead(pre.memory_bus, 49152) = 255
    /\ BusRead(Bus, 49152) = 225
    /\ BusRead(Bus, 57344) = 225

====
